---- MODULE Spec2Model ----
(***************************************************************************)
(* State-machine model of the KurisuAssistant desktop client:             *)
(*   - the conversation store (conversationStore.ts): message window,      *)
(*     pagination cursor, conversation selection;                          *)
(*   - the chat widget (ChatWidget, the version with the thinking channel  *)
(*     and the placeholder bubble): handleSend, the stream reconciler, the *)
(*     animation-frame mailbox and the sequential typing presenter;        *)
(*   - the backend, as far as the client observes it (paged conversation   *)
(*     reads, the chat stream).                                            *)
(* Strings are sequences of one-character strings; the JavaScript null,    *)
(* undefined and '' of a text field are the empty sequence, a null         *)
(* conversation (identifier) is 0.                                         *)
(***************************************************************************)
EXTENDS Integers, Sequences, FiniteSets, TLC

\* ------------------------------------------------------------------ bounds
MaxSends == 2
MaxChunks == 3
MaxImages == 1
UploadImages == 2
MaxLoadMore == 2
MaxNavs == 1
StoreNavs == 2
StoreSends == 1
StoreChunks == 1
TypingChunks == 3
ShortStream == 1
MaxLogins == 2
MaxRestarts == 2
MaxLines == 4
MaxReads == 3
MaxModelLoads == 2
MaxMounts == 1
DeleteNavs == 3
MaxProfileLoads == 2

\* --------------------------------------------------------- program constants
PageSize == 50
TypingStep == 2

\* ------------------------------------------------------------- value domains
NoConv == 0
InitConvs == {1, 2}
AllConvs == 1 .. (2 + MaxSends + StoreSends)
SmallTotals == {2}
LargeTotals == {30, 100, 101}
Roles == {"assistant", "tool", "user", ""}
Letters == <<"a", "b", "c", "d", "e", "f", "g", "h">>
ThinkDeltas == {<< >>, <<"t">>}
Inputs == {<< >>, <<" ">>, <<"h">>}

VARIABLES
    \* conversation store
    conversations, currentConversation, messages, selectedModel,
    totalMessages, hasMoreMessages, messagesOffset, isLoadingMessages,
    \* conversation store: the model list; localStorage: the saved model;
    \* widget: whether the restoring effect has run for the list, and the
    \* selected model the saving effect has seen
    models, savedModel, modelsSeen, selectedSeen,
    \* main window
    selectedId,
    \* requests in flight
    lcReqs, lmReqs, delReqs, convsReq, modelsReq,
    \* backend
    srvConvs, srvTotal,
    \* chat widget state
    input, images, isStreaming, streamingContent, streamingThinking,
    displayedContent, displayedThinking, justFinishedStreaming,
    activeConversationId, typingInterval, streamFrame, frames, pendingStream,
    doneTimers, mounted,
    \* the dependencies the typing effect last ran with, the targets the running
    \* interval's callback closed over, and the current conversation the
    \* identifier effect last ran with
    typingDeps, intervalTargets, syncedConversation,
    \* the value of justFinishedStreaming its effect last ran with, and whether
    \* the 3 s timeout of that effect is set
    finishedDeps, finishedTimer,
    \* the handleSend calls, timeouts and frames of widgets that have been
    \* replaced by a new one
    orphans,
    \* the running handleSend: position, captured values, locals
    pc, uploaded, sendInput, sendImages, sendActiveId, sendMsgsNonEmpty,
    currentRole, hasPlaceholder, accumulatedContent, accumulatedThinking,
    streamConversationId, streamConv, chunksLeft,
    \* history (not program state): sends started and running, what the
    \* backend sent in the current stream, what the store last fetched, how
    \* often the user has navigated (select, new, delete)
    sendNo, inFlight, sentRuns, srvStream, sealed, lastFetch, navs,
    \* history: the messages the running handleSend has created after the
    \* user's, and how often the widget has been mounted again
    made, mounts,
    \* persistent storage (localStorage), the API client's token, the auth
    \* store, the App's initializing flag, the position of the running auth
    \* operation and the rememberMe argument it was called with
    storedToken, storedRemember, apiToken, isAuthenticated, user, rememberMe,
    initializing, authPc, loginRemember,
    \* the profile requests of loadUserProfile in flight, in call order: the
    \* token each was sent with and whether the settings page whose Save
    \* handler waits for it is still shown; the update requests of the Save
    \* handlers in flight; the isSaving state of the settings page
    profileReq, saveReqs, isSaving,
    \* backend: the tokens it accepts
    srvTokens,
    \* history: profile fetches of initializeAuth and its outcome since the
    \* application started, logins and restarts so far
    initFetches, initResult, logins, restarts,
    \* chatStream: the reads still to come, the line buffer, the objects
    \* yielded, whether the generator has returned; history: the whole text
    reads, buffer, lines, yielded, parsePc, responseText

storeVars == <<conversations, currentConversation, messages, selectedModel,
               totalMessages, hasMoreMessages, messagesOffset, isLoadingMessages>>
netVars == <<lcReqs, lmReqs, delReqs, convsReq, modelsReq>>
srvVars == <<srvConvs, srvTotal>>
presenterVars == <<streamingContent, streamingThinking, displayedContent,
                   displayedThinking, justFinishedStreaming, typingInterval,
                   streamFrame, frames, pendingStream, doneTimers>>
sendVars == <<pc, uploaded, sendInput, sendImages, sendActiveId, sendMsgsNonEmpty,
              currentRole, hasPlaceholder, accumulatedContent, accumulatedThinking,
              streamConversationId, streamConv, chunksLeft>>
histVars == <<sendNo, inFlight, sentRuns, srvStream, sealed, lastFetch, navs>>
finishedVars == <<finishedDeps, finishedTimer>>
effectVars == <<typingDeps, intervalTargets, syncedConversation, finishedVars>>
modelVars == <<models, savedModel, modelsSeen, selectedSeen>>
clientVars == <<storeVars, modelVars, selectedId, netVars, srvVars, input, images, isStreaming,
                activeConversationId, presenterVars, mounted, effectVars, orphans,
                mounts, made, sendVars, histVars>>
saveVars == <<profileReq, saveReqs, isSaving>>
authRest == <<storedToken, storedRemember, apiToken, isAuthenticated, user,
              rememberMe, initializing, authPc, loginRemember, srvTokens,
              initFetches, initResult, logins, restarts>>
authVars == <<authRest, saveVars>>
parseVars == <<reads, buffer, lines, yielded, parsePc, responseText>>
vars == <<clientVars, authVars, parseVars>>

\* ------------------------------------------------------------------ helpers
Min(a, b) == IF a < b THEN a ELSE b
Max(a, b) == IF a > b THEN a ELSE b

\* String.prototype.slice(0, n)
Slice(s, n) == SubSeq(s, 1, Min(n, Len(s)))

\* String.prototype.trim() on the modelled alphabet (" " is the only blank)
RECURSIVE TrimLeft(_)
TrimLeft(s) == IF s # << >> /\ Head(s) = " " THEN TrimLeft(Tail(s)) ELSE s
RECURSIVE TrimRight(_)
TrimRight(s) ==
    IF s # << >> /\ s[Len(s)] = " " THEN TrimRight(SubSeq(s, 1, Len(s) - 1)) ELSE s
Trim(s) == TrimRight(TrimLeft(s))

\* A Message (types.ts).  conv/idx identify a message the backend returned,
\* snd/run a message this client created (send number, 0 = the user's
\* message, k = the message of the k-th role run, counted from the placeholder).
Msg(c, i, r, t, th, s, k) ==
    [conv |-> c, idx |-> i, role |-> r, content |-> t, thinking |-> th,
     snd |-> s, run |-> k]

\* ------------------------------------------------------------------ backend
\* The i-th message (oldest first) of conversation c as the backend returns it.
ServerMsg(c, i) ==
    Msg(c, i, IF i % 2 = 1 THEN "user" ELSE "assistant", <<"s">>, << >>, 0, 0)

\* GET /conversations/{id}?limit&offset: offset counts from the newest message,
\* the page is returned oldest first.
ServerPage(c, limit, offset) ==
    LET total == srvTotal[c]
        hi == total - offset
        lo == Max(1, hi - limit + 1)
        n == IF hi >= lo THEN hi - lo + 1 ELSE 0
    IN  [messages |-> [i \in 1 .. n |-> ServerMsg(c, lo + i - 1)],
         total_messages |-> total,
         offset |-> offset,
         limit |-> limit,
         has_more |-> offset + n < total]

\* -------------------------------------------------------- conversation store
\* App renders MainWindow exactly while the session is authenticated and the
\* App has stopped initializing.
MainWindowShown == isAuthenticated /\ ~initializing

\* conversations.find((c) => c.id === id) || null
FindConversation(convs, id) == IF id \in convs THEN id ELSE NoConv

AddMessage(msgs, m) == Append(msgs, m)

\* A store that writes the content into the oldest message of the window.
UpdateFirstMessage(msgs, content) ==
    IF Len(msgs) > 0
    THEN [msgs EXCEPT ![1] = [@ EXCEPT !.content = content]]
    ELSE msgs

UpdateLastMessage(msgs, content) ==
    IF Len(msgs) > 0
    THEN [msgs EXCEPT ![Len(msgs)] = [@ EXCEPT !.content = content]]
    ELSE msgs

RemoveAt(s, i) == SubSeq(s, 1, i - 1) \o SubSeq(s, i + 1, Len(s))

\* The requests in flight are kept in the order they were issued; they are
\* answered in any order.
InFlight(reqs, x) == \E i \in DOMAIN reqs : reqs[i] = x
RemoveFirst(reqs, x) ==
    RemoveAt(reqs, CHOOSE i \in DOMAIN reqs :
                       reqs[i] = x /\ \A j \in 1 .. (i - 1) : reqs[j] # x)

\* loadConversations (MainWindow mount effect): the list of the backend.
\* convsReq counts the requests in flight.
LoadConversationsDone ==
    /\ convsReq > 0
    /\ convsReq' = convsReq - 1
    /\ conversations' = srvConvs
    /\ UNCHANGED <<authVars, parseVars, modelVars, mounted, effectVars, orphans, mounts, made, currentConversation, messages, selectedModel, totalMessages,
                   hasMoreMessages, messagesOffset, isLoadingMessages, selectedId,
                   lcReqs, lmReqs, delReqs, modelsReq, srvVars, input, images,
                   isStreaming, activeConversationId, presenterVars, sendVars,
                   histVars>>

\* The "Reload models" button of the widget: loadModels issues GET /models
\* (the widget's mount effect issues the first one).  modelsReq counts the
\* requests in flight.
LoadModelsCall ==
    /\ mounted
    /\ modelsReq < MaxModelLoads
    /\ modelsReq' = modelsReq + 1
    /\ UNCHANGED <<authVars, parseVars, modelVars, mounted, effectVars, orphans, mounts, made, storeVars, selectedId,
                   lcReqs, lmReqs, delReqs, convsReq, srvVars, input, images,
                   isStreaming, activeConversationId, presenterVars, sendVars,
                   histVars>>

\* models[0] || ''
FirstModel(ms) == IF ms = << >> THEN "" ELSE ms[1]

\* loadModels after the await: set({ models, selectedModel: models[0] || '' }).
\* The list is a new array, so the widget's restoring effect is due again.
LoadModelsDone(ms) ==
    /\ modelsReq > 0
    /\ modelsReq' = modelsReq - 1
    /\ models' = ms
    /\ selectedModel' = FirstModel(ms)
    /\ modelsSeen' = FALSE
    /\ UNCHANGED <<authVars, parseVars, savedModel, selectedSeen, mounted, effectVars, orphans, mounts, made, conversations, currentConversation, messages, totalMessages,
                   hasMoreMessages, messagesOffset, isLoadingMessages, selectedId,
                   lcReqs, lmReqs, delReqs, convsReq, srvVars, input, images,
                   isStreaming, activeConversationId, presenterVars, sendVars,
                   histVars>>

\* setSelectedModel: set({ selectedModel: model }).
SetSelectedModel(model) == model

\* models.includes(savedModel)
Includes(ms, m) == \E i \in DOMAIN ms : ms[i] = m

\* The restoring effect on [models]: `if (savedModel && models.includes(
\* savedModel)) setSelectedModel(savedModel)`.
RestoredModel(runs) ==
    IF runs /\ savedModel # "" /\ Includes(models, savedModel)
    THEN SetSelectedModel(savedModel)
    ELSE selectedModel

\* The saving effect on [selectedModel], with the selectedModel of its
\* render: `if (selectedModel) storage.setSelectedModel(selectedModel)`.
SavedAfter(runs) == IF runs /\ selectedModel # "" THEN selectedModel ELSE savedModel

\* The passive effects of a render after the model list or the selected
\* model changed outside a user event: the restoring effect, then the saving
\* effect.  A model the restoring effect selects is saved by the effects of
\* the render that follows.
ModelEffects ==
    /\ mounted
    /\ ~modelsSeen \/ selectedSeen # selectedModel
    /\ selectedModel' = RestoredModel(~modelsSeen)
    /\ savedModel' = SavedAfter(selectedSeen # selectedModel)
    /\ modelsSeen' = TRUE
    /\ selectedSeen' = selectedModel
    /\ UNCHANGED <<authVars, parseVars, models, mounted, effectVars, orphans, mounts, made, conversations, currentConversation, messages, totalMessages,
                   hasMoreMessages, messagesOffset, isLoadingMessages, selectedId,
                   netVars, srvVars, input, images,
                   isStreaming, activeConversationId, presenterVars, sendVars,
                   histVars>>

\* The model selector (Select onChange, not disabled while streaming): the
\* user chooses another model of the list; the render runs within the event
\* and the saving effect stores the choice.
SelectModel(model) ==
    /\ mounted
    /\ Includes(models, model)
    /\ model # selectedModel
    /\ selectedModel' = SetSelectedModel(model)
    /\ savedModel' = model
    /\ selectedSeen' = model
    /\ modelsSeen' = TRUE
    /\ UNCHANGED <<authVars, parseVars, models, mounted, effectVars, orphans, mounts, made, conversations, currentConversation, messages, totalMessages,
                   hasMoreMessages, messagesOffset, isLoadingMessages, selectedId,
                   netVars, srvVars, input, images,
                   isStreaming, activeConversationId, presenterVars, sendVars,
                   histVars>>

\* GET /models failed: the promise of loadModels rejects, the store is left.
LoadModelsFail ==
    /\ modelsReq > 0
    /\ modelsReq' = modelsReq - 1
    /\ UNCHANGED <<authVars, parseVars, modelVars, mounted, effectVars, orphans, mounts, made, storeVars, selectedId,
                   lcReqs, lmReqs, delReqs, convsReq, srvVars, input, images,
                   isStreaming, activeConversationId, presenterVars, sendVars,
                   histVars>>

\* handleSelectConversation: setSelectedId(id), then loadConversation(id)
\* issues GET /conversations/{id}?limit=50&offset=0.
LoadConversationCall(id) ==
    /\ MainWindowShown
    /\ navs' = navs + 1
    /\ id \in conversations
    /\ selectedId' = id
    /\ lcReqs' = Append(lcReqs, id)
    /\ UNCHANGED <<authVars, parseVars, modelVars, mounted, effectVars, orphans, mounts, made, storeVars, lmReqs, delReqs, convsReq, modelsReq, srvVars, input,
                   images, isStreaming, activeConversationId, presenterVars,
                   sendVars, sendNo, inFlight,
                   sentRuns, srvStream, sealed, lastFetch>>

\* A loadConversation that replaces the messages and the total but leaves the
\* cursor and the loading flag of the window shown before.
LoadConversationKeepingCursor(id, data) ==
    /\ currentConversation' = FindConversation(conversations, id)
    /\ messages' = data.messages
    /\ totalMessages' = data.total_messages
    /\ hasMoreMessages' = data.has_more
    /\ UNCHANGED <<messagesOffset, isLoadingMessages>>

\* loadConversation, after the await: the whole window is replaced.
LoadConversationSet(id, data) ==
    /\ currentConversation' = FindConversation(conversations, id)
    /\ messages' = data.messages
    /\ totalMessages' = data.total_messages
    /\ hasMoreMessages' = data.has_more
    /\ messagesOffset' = data.limit
    /\ isLoadingMessages' = FALSE

LoadConversationDone(id) ==
    /\ InFlight(lcReqs, id)
    /\ id \in srvConvs
    /\ lcReqs' = RemoveFirst(lcReqs, id)
    /\ LET data == ServerPage(id, PageSize, 0)
       IN  /\ LoadConversationSet(id, data)
           /\ lastFetch' = [len |-> Len(data.messages), has_more |-> data.has_more]
    /\ UNCHANGED <<authVars, parseVars, modelVars, mounted, effectVars, orphans, mounts, made, conversations, selectedModel, selectedId, lmReqs, delReqs,
                   convsReq, modelsReq, srvVars, input, images, isStreaming,
                   activeConversationId, presenterVars, sendVars, sendNo, inFlight,
                   sentRuns, srvStream, sealed, navs>>

\* The request is rejected: handleSelectConversation shows the banner.
LoadConversationFail(id) ==
    /\ InFlight(lcReqs, id)
    /\ lcReqs' = RemoveFirst(lcReqs, id)
    /\ UNCHANGED <<authVars, parseVars, modelVars, mounted, effectVars, orphans, mounts, made, storeVars, selectedId, lmReqs, delReqs, convsReq, modelsReq,
                   srvVars, input, images, isStreaming, activeConversationId,
                   presenterVars, sendVars, histVars>>

\* The guard of loadMoreMessages (and of handleScroll, which is weaker).
LoadMoreGuard ==
    ~(isLoadingMessages \/ ~hasMoreMessages \/ currentConversation = NoConv)

\* handleScroll near the top -> loadMoreMessages up to its await.
LoadMoreCall ==
    /\ mounted
    /\ LoadMoreGuard
    /\ Len(lmReqs) < MaxLoadMore
    /\ isLoadingMessages' = TRUE
    /\ lmReqs' = Append(lmReqs, [conv |-> currentConversation,
                                 offset |-> messagesOffset])
    /\ UNCHANGED <<authVars, parseVars, modelVars, mounted, effectVars, orphans, mounts, made, conversations, currentConversation, messages, selectedModel,
                   totalMessages, hasMoreMessages, messagesOffset, selectedId,
                   lcReqs, delReqs, convsReq, modelsReq, srvVars, input, images,
                   isStreaming, activeConversationId, presenterVars, sendVars,
                   histVars>>

\* A loadMoreMessages that prepends the page and moves the cursor but never
\* looks at the response's has_more.
LoadMoreIgnoringHasMore(data) ==
    /\ messages' = data.messages \o messages
    /\ messagesOffset' = messagesOffset + Len(data.messages)
    /\ isLoadingMessages' = FALSE
    /\ UNCHANGED hasMoreMessages

\* A loadMoreMessages that puts the page behind the window.
LoadMoreAppending(data) ==
    /\ messages' = messages \o data.messages
    /\ hasMoreMessages' = data.has_more
    /\ messagesOffset' = messagesOffset + Len(data.messages)
    /\ isLoadingMessages' = FALSE

\* loadMoreMessages, after the await: the page goes in front of the window.
LoadMoreSet(data) ==
    /\ messages' = data.messages \o messages
    /\ hasMoreMessages' = data.has_more
    /\ messagesOffset' = messagesOffset + Len(data.messages)
    /\ isLoadingMessages' = FALSE

LoadMoreDone(i) ==
    /\ i \in 1 .. Len(lmReqs)
    /\ lmReqs[i].conv \in srvConvs
    /\ lmReqs' = RemoveAt(lmReqs, i)
    /\ LET data == ServerPage(lmReqs[i].conv, PageSize, lmReqs[i].offset)
       IN  /\ LoadMoreSet(data)
           /\ lastFetch' = [len |-> Len(data.messages), has_more |-> data.has_more]
    /\ UNCHANGED <<authVars, parseVars, modelVars, mounted, effectVars, orphans, mounts, made, conversations, currentConversation, selectedModel, totalMessages,
                   selectedId, lcReqs, delReqs, convsReq, modelsReq, srvVars, input,
                   images, isStreaming, activeConversationId, presenterVars,
                   sendVars, sendNo, inFlight, sentRuns, srvStream, sealed, navs>>

\* The history of a fetch that brought no page.
NothingFetched == [len |-> 0, has_more |-> FALSE]

\* A catch branch that leaves the loading flag set.
LoadingKept(loading) == loading

\* catch: set({ isLoadingMessages: false })
LoadingReset(loading) == FALSE

\* loadMoreMessages, catch branch.
LoadMoreFail(i) ==
    /\ i \in 1 .. Len(lmReqs)
    /\ lmReqs' = RemoveAt(lmReqs, i)
    /\ isLoadingMessages' = LoadingReset(isLoadingMessages)
    /\ lastFetch' = NothingFetched
    /\ UNCHANGED <<authVars, parseVars, modelVars, mounted, effectVars, orphans, mounts, made, conversations, currentConversation, messages, selectedModel,
                   totalMessages, hasMoreMessages, messagesOffset, selectedId,
                   lcReqs, delReqs, convsReq, modelsReq, srvVars, input, images,
                   isStreaming, activeConversationId, presenterVars, sendVars,
                   sendNo, inFlight, sentRuns, srvStream, sealed, navs>>

\* handleNewConversation: setSelectedId(null), createNewConversation().
CreateNewConversation ==
    /\ MainWindowShown
    /\ navs' = navs + 1
    /\ selectedId' = NoConv
    /\ currentConversation' = NoConv
    /\ messages' = << >>
    /\ totalMessages' = 0
    /\ hasMoreMessages' = FALSE
    /\ messagesOffset' = 0
    /\ isLoadingMessages' = FALSE
    /\ UNCHANGED <<authVars, parseVars, modelVars, mounted, effectVars, orphans, mounts, made, conversations, selectedModel, netVars, srvVars, input, images,
                   isStreaming, activeConversationId, presenterVars, sendVars,
                   sendNo, inFlight, sentRuns, srvStream, sealed, lastFetch>>

\* handleDelete: deleteConversation(selectedId) issues DELETE /conversations/{id}.
\* `live`: the MainWindow that issued the request is still the one shown.
DeleteCall ==
    /\ MainWindowShown
    /\ navs' = navs + 1
    /\ selectedId # NoConv
    /\ delReqs' = Append(delReqs, [id |-> selectedId, live |-> TRUE])
    /\ UNCHANGED <<authVars, parseVars, modelVars, mounted, effectVars, orphans, mounts, made, storeVars, selectedId, lcReqs, lmReqs, convsReq, modelsReq,
                   srvVars, input, images, isStreaming, activeConversationId,
                   presenterVars, sendVars, sendNo, inFlight,
                   sentRuns, srvStream, sealed, lastFetch>>

\* deleteConversation after the await, then setSelectedId(null) in the
\* MainWindow that called it.
DeleteDone(i) ==
    /\ i \in 1 .. Len(delReqs)
    /\ delReqs[i].id \in srvConvs
    /\ delReqs' = RemoveAt(delReqs, i)
    /\ srvConvs' = srvConvs \ {delReqs[i].id}
    /\ conversations' = conversations \ {delReqs[i].id}
    /\ currentConversation' = NoConv
    /\ messages' = << >>
    /\ selectedId' = IF delReqs[i].live THEN NoConv ELSE selectedId
    /\ UNCHANGED <<authVars, parseVars, modelVars, mounted, effectVars, orphans, mounts, made, selectedModel, totalMessages, hasMoreMessages, messagesOffset,
                   isLoadingMessages, lcReqs, lmReqs, convsReq, modelsReq, srvTotal,
                   input, images, isStreaming, activeConversationId, presenterVars,
                   sendVars, histVars>>

\* The backend rejects the delete (the conversation is gone already, or the
\* request failed): handleDelete shows the banner.
DeleteFail(i) ==
    /\ i \in 1 .. Len(delReqs)
    /\ delReqs' = RemoveAt(delReqs, i)
    /\ UNCHANGED <<authVars, parseVars, modelVars, mounted, effectVars, orphans, mounts, made, storeVars, selectedId, lcReqs, lmReqs, convsReq, modelsReq,
                   srvVars, input, images, isStreaming, activeConversationId,
                   presenterVars, sendVars, histVars>>

\* setCurrentConversationId: returns nothing.
SetCurrentConversationId(id) == FindConversation(conversations, id)

\* ------------------------------------------------------ widget: the presenter
\* A state setter called on a widget that has been unmounted does nothing.
SetState(new, old) == IF mounted THEN new ELSE old

\* No interval is running; the dependencies of the first render.
NoTargets == [content |-> << >>, thinking |-> << >>]
NoDeps == << << >>, << >>, FALSE >>

\* The typing useEffect on [streamingThinking, streamingContent, isStreaming]:
\* the interval of the run before is cleared; not streaming: nothing more;
\* both targets empty: both cursors are reset; otherwise
\* startSequentialTypingEffect starts an interval whose callback closes over
\* the targets of this render.
StartsInterval(sc, st, is) == is /\ ~(sc = << >> /\ st = << >>)
ResetsCursors(sc, st, is) == is /\ sc = << >> /\ st = << >>

\* The state setters of a handler that runs outside a user event (a
\* continuation of handleSend, a timeout, an animation frame): new targets
\* sc/st, new isStreaming, the cursors dc/dt.  The effects of the render they
\* cause run in a later step.
Setters(sc, st, is, dc, dt) ==
    /\ streamingContent' = SetState(sc, streamingContent)
    /\ streamingThinking' = SetState(st, streamingThinking)
    /\ isStreaming' = SetState(is, isStreaming)
    /\ displayedContent' = SetState(dc, displayedContent)
    /\ displayedThinking' = SetState(dt, displayedThinking)
    /\ UNCHANGED typingInterval

\* The state setters of a click handler: React renders and runs the effects
\* before the handler's event is over.
Render(sc, st, is, dc, dt) ==
    LET run == typingDeps # <<st, sc, is>>
    IN  /\ streamingContent' = sc
        /\ streamingThinking' = st
        /\ isStreaming' = is
        /\ typingDeps' = <<st, sc, is>>
        /\ typingInterval' = IF run THEN StartsInterval(sc, st, is) ELSE typingInterval
        /\ intervalTargets' = IF ~run THEN intervalTargets
                              ELSE IF StartsInterval(sc, st, is)
                              THEN [content |-> sc, thinking |-> st]
                              ELSE NoTargets
        /\ displayedContent' = IF run /\ ResetsCursors(sc, st, is) THEN << >> ELSE dc
        /\ displayedThinking' = IF run /\ ResetsCursors(sc, st, is) THEN << >> ELSE dt

\* The same render for the effect on [justFinishedStreaming], flag being the
\* value the handler leaves.
FinishedRender(flag) ==
    /\ finishedDeps' = flag
    /\ finishedTimer' = IF finishedDeps # flag THEN flag ELSE finishedTimer

\* The typing useEffect, run after a render in which one of its dependencies
\* differs from those of its last run.
TypingEffect ==
    /\ mounted
    /\ typingDeps # <<streamingThinking, streamingContent, isStreaming>>
    /\ typingDeps' = <<streamingThinking, streamingContent, isStreaming>>
    /\ typingInterval' = StartsInterval(streamingContent, streamingThinking, isStreaming)
    /\ intervalTargets' =
           IF StartsInterval(streamingContent, streamingThinking, isStreaming)
           THEN [content |-> streamingContent, thinking |-> streamingThinking]
           ELSE NoTargets
    /\ displayedContent' =
           IF ResetsCursors(streamingContent, streamingThinking, isStreaming)
           THEN << >> ELSE displayedContent
    /\ displayedThinking' =
           IF ResetsCursors(streamingContent, streamingThinking, isStreaming)
           THEN << >> ELSE displayedThinking
    /\ UNCHANGED <<authVars, parseVars, modelVars, mounted, syncedConversation, finishedVars, orphans, mounts, made, storeVars, selectedId, netVars, srvVars, input, images,
                   isStreaming, activeConversationId, streamingContent,
                   streamingThinking, justFinishedStreaming, streamFrame, frames,
                   pendingStream, doneTimers, sendVars, histVars>>

\* The useEffect on [currentConversation]:
\* setActiveConversationId(currentConversation?.id || null), run after a
\* render in which the store's current conversation differs from the one of
\* its last run.
SyncActiveId ==
    /\ mounted
    /\ syncedConversation # currentConversation
    /\ syncedConversation' = currentConversation
    /\ activeConversationId' = currentConversation
    /\ UNCHANGED <<authVars, parseVars, modelVars, mounted, typingDeps, intervalTargets, finishedVars, orphans, mounts, made, storeVars, selectedId, netVars, srvVars, input, images,
                   isStreaming, presenterVars, sendVars, histVars>>

\* A callback that types thinking and content at the same time.
TickBoth(dt, dc, st, sc) ==
    IF Len(dt) < Len(st) \/ Len(dc) < Len(sc)
    THEN <<Slice(st, Len(dt) + TypingStep), Slice(sc, Len(dc) + TypingStep), TRUE>>
    ELSE <<dt, dc, FALSE>>

\* A scheduleStreamUpdate that requests a frame on every call.
RequestAlways(n, pending) == n + 1

\* scheduleStreamUpdate: a frame is requested only when streamFrameRef holds
\* none; n counts the callbacks requested and neither run nor cancelled.
RequestFrame(n, pending) == IF pending THEN n ELSE n + 1

\* cancelStreamUpdate: the frame in streamFrameRef, if any, is cancelled.
CancelFrame(n, pending) == IF pending THEN n - 1 ELSE n

\* One run of the setInterval callback of startSequentialTypingEffect, st and
\* sc being the targets it closed over:
\* <<displayedThinking, displayedContent, interval still running>>.
TickResult(dt, dc, st, sc) ==
    IF Len(dt) < Len(st) THEN <<Slice(st, Len(dt) + TypingStep), dc, TRUE>>
    ELSE IF Len(dc) < Len(sc) THEN <<dt, Slice(sc, Len(dc) + TypingStep), TRUE>>
    ELSE <<dt, dc, FALSE>>

Tick ==
    /\ typingInterval
    /\ LET r == TickResult(displayedThinking, displayedContent,
                           intervalTargets.thinking, intervalTargets.content)
       IN  /\ displayedThinking' = r[1]
           /\ displayedContent' = r[2]
           /\ typingInterval' = r[3]
           /\ intervalTargets' = IF r[3] THEN intervalTargets ELSE NoTargets
    /\ UNCHANGED <<authVars, parseVars, modelVars, mounted, typingDeps, syncedConversation, finishedVars, orphans, mounts, made, storeVars, selectedId, netVars, srvVars, input, images,
                   isStreaming, activeConversationId, streamingContent,
                   streamingThinking, justFinishedStreaming, streamFrame, frames,
                   pendingStream, doneTimers, sendVars, histVars>>

\* The requestAnimationFrame callback of scheduleStreamUpdate.
FrameFire ==
    /\ streamFrame
    /\ streamFrame' = FALSE
    /\ frames' = frames - 1
    /\ Setters(pendingStream.content, pendingStream.thinking, isStreaming,
               displayedContent, displayedThinking)
    /\ UNCHANGED <<authVars, parseVars, modelVars, mounted, effectVars, orphans, mounts, made, storeVars, selectedId, netVars, srvVars, input, images,
                   activeConversationId, justFinishedStreaming, pendingStream,
                   doneTimers, sendVars, histVars>>

\* The 300 ms timeout set by the done marker.
DoneTimerFire ==
    /\ doneTimers > 0
    /\ doneTimers' = doneTimers - 1
    /\ streamFrame' = FALSE
    /\ frames' = CancelFrame(frames, streamFrame)
    /\ justFinishedStreaming' = SetState(TRUE, justFinishedStreaming)
    /\ Setters(<< >>, << >>, isStreaming, displayedContent, displayedThinking)
    /\ UNCHANGED <<authVars, parseVars, modelVars, mounted, effectVars, orphans, mounts, made, storeVars, selectedId, netVars, srvVars, input, images,
                   activeConversationId, pendingStream, sendVars, histVars>>

\* The useEffect on [justFinishedStreaming], run after a render in which the
\* flag differs from the one of its last run: the cleanup of that run clears
\* its timeout, and with the flag true a timeout of 3 s is set.
FinishedEffect ==
    /\ mounted
    /\ finishedDeps # justFinishedStreaming
    /\ finishedDeps' = justFinishedStreaming
    /\ finishedTimer' = justFinishedStreaming
    /\ UNCHANGED <<authVars, parseVars, modelVars, mounted, typingDeps, intervalTargets,
                   syncedConversation, orphans, mounts, made, storeVars, selectedId,
                   netVars, srvVars, input, images, isStreaming,
                   activeConversationId, presenterVars, sendVars, histVars>>

\* The 3 s timeout of the "just finished" effect fires:
\* setJustFinishedStreaming(false).  The effect runs again only after a
\* render that sees the flag changed.
FinishedTimerFire ==
    /\ mounted
    /\ finishedTimer
    /\ finishedTimer' = FALSE
    /\ justFinishedStreaming' = FALSE
    /\ UNCHANGED <<authVars, parseVars, modelVars, mounted, typingDeps, intervalTargets,
                   syncedConversation, finishedDeps, orphans, mounts, made,
                   storeVars, selectedId, netVars, srvVars, input, images,
                   isStreaming, activeConversationId, streamingContent,
                   streamingThinking, displayedContent, displayedThinking,
                   typingInterval, streamFrame, frames, pendingStream, doneTimers,
                   sendVars, histVars>>

\* -------------------------------------------- widget: unmounting and mounting
\* The cleanups of the widget's effects (typing interval, animation frame, the
\* timeout of the finished indicator).  The timeout set by a done marker and
\* the running handleSend have no cleanup.
Cleanups ==
    /\ mounted' = FALSE
    /\ typingInterval' = FALSE
    /\ intervalTargets' = NoTargets
    /\ streamFrame' = FALSE
    /\ frames' = CancelFrame(frames, streamFrame)
    /\ finishedTimer' = FALSE

\* The settings button of MainWindow replaces the widget by the settings page.
Unmount ==
    /\ mounted
    /\ Cleanups
    /\ UNCHANGED <<authVars, parseVars, modelVars, typingDeps, syncedConversation, finishedDeps, orphans,
                   mounts, made, storeVars, selectedId, netVars, srvVars,
                   input, images, isStreaming, activeConversationId,
                   streamingContent, streamingThinking, displayedContent,
                   displayedThinking, justFinishedStreaming, pendingStream,
                   doneTimers, sendVars, histVars>>

\* What a widget leaves behind when it is replaced: its handleSend with the
\* values it captured and its locals, the objects its stream has delivered,
\* its timeouts of done markers and its refs.
Leftover ==
    [pc |-> pc, uploaded |-> uploaded, sendInput |-> sendInput,
     sendImages |-> sendImages, sendActiveId |-> sendActiveId,
     sendMsgsNonEmpty |-> sendMsgsNonEmpty, currentRole |-> currentRole,
     hasPlaceholder |-> hasPlaceholder, accumulatedContent |-> accumulatedContent,
     accumulatedThinking |-> accumulatedThinking,
     streamConversationId |-> streamConversationId, streamConv |-> streamConv,
     chunksLeft |-> chunksLeft, snd |-> sendNo, made |-> made, runs |-> sentRuns,
     streamFrame |-> streamFrame, frames |-> frames,
     pendingStream |-> pendingStream, doneTimers |-> doneTimers]

\* Something of the widget is still to run.
Active(o) == o.pc # "idle" \/ o.doneTimers > 0 \/ o.streamFrame

\* The locals of handleSend as declared before the loop.
Locals(role, placeholder, content, thinking, sid) ==
    /\ currentRole' = role
    /\ hasPlaceholder' = placeholder
    /\ accumulatedContent' = content
    /\ accumulatedThinking' = thinking
    /\ streamConversationId' = sid

\* No handleSend is running.
Idle ==
    /\ pc' = "idle"
    /\ uploaded' = 0
    /\ sendInput' = << >>
    /\ sendImages' = 0
    /\ sendActiveId' = NoConv
    /\ sendMsgsNonEmpty' = FALSE
    /\ Locals("", FALSE, << >>, << >>, NoConv)
    /\ streamConv' = NoConv
    /\ chunksLeft' = 0
    /\ made' = 0

\* A new ChatWidget is mounted on the store: the initial values of its
\* useState and useRef calls, its first render and the mount effects
\* (loadModels; the restoring and the saving effect of the model; the
\* identifier effect, which sets what useState set).  What the widget before
\* it left running goes on running.
MountWidget ==
    /\ mounted' = TRUE
    /\ input' = << >>
    /\ images' = 0
    /\ isStreaming' = FALSE
    /\ streamingContent' = << >>
    /\ streamingThinking' = << >>
    /\ displayedContent' = << >>
    /\ displayedThinking' = << >>
    /\ justFinishedStreaming' = FALSE
    /\ activeConversationId' = currentConversation
    /\ syncedConversation' = currentConversation
    /\ typingInterval' = FALSE
    /\ intervalTargets' = NoTargets
    /\ typingDeps' = NoDeps
    /\ finishedDeps' = FALSE
    /\ finishedTimer' = FALSE
    /\ streamFrame' = FALSE
    /\ frames' = 0
    /\ pendingStream' = NoTargets
    /\ doneTimers' = 0
    /\ modelsReq' = modelsReq + 1
    /\ selectedModel' = RestoredModel(TRUE)
    /\ savedModel' = SavedAfter(TRUE)
    /\ modelsSeen' = TRUE
    /\ selectedSeen' = selectedModel
    /\ orphans' = IF Active(Leftover) THEN Append(orphans, Leftover) ELSE orphans
    /\ Idle
    /\ inFlight' = 0
    /\ sentRuns' = << >>
    /\ srvStream' = "none"

\* MainWindow shows the settings page in place of the widget.
SettingsShown == MainWindowShown /\ ~mounted

\* The settings page is unmounted: the Save handlers that are waiting go on,
\* but their state setters do nothing any more; a settings page mounted
\* later starts with isSaving false.
Dead(reqs) == [i \in DOMAIN reqs |-> [reqs[i] EXCEPT !.live = FALSE]]
CloseSettings ==
    /\ profileReq' = Dead(profileReq)
    /\ saveReqs' = Dead(saveReqs)
    /\ isSaving' = FALSE

\* The back button of the settings page (or the settings button again):
\* MainWindow renders a ChatWidget again.
Remount ==
    /\ ~mounted
    /\ MainWindowShown
    /\ mounts < MaxMounts
    /\ mounts' = mounts + 1
    /\ MountWidget
    /\ CloseSettings
    /\ UNCHANGED <<authRest, parseVars, conversations, currentConversation, messages,
                   totalMessages, hasMoreMessages, messagesOffset,
                   isLoadingMessages, models, selectedId, lcReqs, lmReqs,
                   delReqs, convsReq, srvVars, sendNo, sealed, lastFetch, navs>>

\* -------------------------------------------------------- widget: user input
\* The text field and the attach button are disabled while streaming.  (The
\* model follows the user's typing only while a send is still to come.)
SetInput(text, cap) ==
    /\ mounted
    /\ sendNo < cap
    /\ ~isStreaming
    /\ text # input
    /\ input' = text
    /\ UNCHANGED <<authVars, parseVars, modelVars, mounted, effectVars, orphans, mounts, made, storeVars, selectedId, netVars, srvVars, images, isStreaming,
                   activeConversationId, presenterVars, sendVars, histVars>>

\* handleFileSelect: every file of the change event is appended
\* (`most` bounds the list).
AttachImages(cap, most) ==
    /\ mounted
    /\ sendNo < cap
    /\ ~isStreaming
    /\ \E n \in 1 .. (most - images) : images' = images + n
    /\ UNCHANGED <<authVars, parseVars, modelVars, mounted, effectVars, orphans, mounts, made, storeVars, selectedId, netVars, srvVars, input, isStreaming,
                   activeConversationId, presenterVars, sendVars, histVars>>

AttachImage(cap) == AttachImages(cap, MaxImages)

\* removeImage (the delete icon of an image's chip, never disabled): the list
\* shown loses one image; a list a running handleSend has captured is left.
RemoveImage ==
    /\ mounted
    /\ images > 0
    /\ images' = images - 1
    /\ UNCHANGED <<authVars, parseVars, modelVars, mounted, effectVars, orphans, mounts, made, storeVars, selectedId, netVars, srvVars, input, isStreaming,
                   activeConversationId, presenterVars, sendVars, histVars>>

\* ------------------------------------------------------- widget: handleSend
\* A guard that looks at the input and the model but not at isStreaming.
GuardIgnoringStreaming == ~(Trim(input) = << >> \/ selectedModel = "")

\* if (!input.trim() || isStreaming || !selectedModel) return;
HandleSendGuard == ~(Trim(input) = << >> \/ isStreaming \/ selectedModel = "")

\* 'Error: ' + (err.message || 'Failed to send message')
ErrorText(err) == <<"Error: ", err>>

\* A handleSend without its finally block.
NoFinally(is) == is

\* finally { setIsStreaming(false) }
Finally(is) == FALSE

\* handleSend has returned: its captured values and locals are gone.
Return ==
    /\ Idle
    /\ inFlight' = inFlight - 1

\* After the uploads: the user's message and the placeholder are appended, the
\* input, the images and the finished flag are reset, and chatStream issues
\* POST /chat (send number n, text and identifier as captured when handleSend
\* was called).
Begin(n, text, aid) ==
    /\ messages' = AddMessage(AddMessage(messages,
                       Msg(NoConv, 0, "user", text, << >>, n, 0)),
                       Msg(NoConv, 0, "assistant", << >>, << >>, n, 1))
    /\ input' = SetState(<< >>, input)
    /\ images' = SetState(0, images)
    /\ justFinishedStreaming' = SetState(FALSE, justFinishedStreaming)
    /\ Locals("", TRUE, << >>, << >>, aid)
    /\ made' = 1
    /\ pc' = "fetch"

HandleSend(cap) ==
    /\ mounted
    /\ sendNo < cap
    /\ IF ~HandleSendGuard
       THEN UNCHANGED vars
       ELSE /\ sendNo' = sendNo + 1
            /\ inFlight' = inFlight + 1
            /\ sentRuns' = << >>
            /\ srvStream' = "none"
            /\ sendInput' = input
            /\ sendImages' = images
            /\ sendActiveId' = activeConversationId
            /\ sendMsgsNonEmpty' = (Len(messages) > 0)
            /\ uploaded' = 0
            /\ IF images = 0
               THEN /\ Begin(sendNo + 1, input, activeConversationId)
                    /\ Render(<< >>, << >>, TRUE, << >>, << >>)
                    /\ FinishedRender(FALSE)
               ELSE /\ pc' = "upload"
                    /\ Render(streamingContent, streamingThinking, TRUE,
                              displayedContent, displayedThinking)
                    /\ FinishedRender(justFinishedStreaming)
                    /\ UNCHANGED <<messages, input, images, justFinishedStreaming,
                                   currentRole, hasPlaceholder, accumulatedContent,
                                   accumulatedThinking, streamConversationId, made>>
            /\ UNCHANGED <<authVars, parseVars, modelVars, mounted, syncedConversation, orphans, mounts, conversations, currentConversation, selectedModel,
                           totalMessages, hasMoreMessages, messagesOffset,
                           isLoadingMessages, selectedId, netVars, srvVars,
                           activeConversationId, streamFrame, frames, pendingStream,
                           doneTimers, streamConv, chunksLeft, sealed, lastFetch, navs>>

\* apiClient.uploadImage resolved for the next image, in listed order.
\* A loop that leaves for the chat request as soon as one upload is done.
UploadedAny(n, total) == n >= 1

\* for (const imageFile of imageFiles): the loop is over when every captured
\* image has been uploaded.
UploadedAll(n, total) == n = total

UploadDone ==
    /\ pc = "upload"
    /\ uploaded' = uploaded + 1
    /\ IF UploadedAll(uploaded + 1, sendImages)
       THEN /\ Begin(sendNo, sendInput, sendActiveId)
            /\ Setters(<< >>, << >>, isStreaming, << >>, << >>)
       ELSE UNCHANGED <<messages, input, images, justFinishedStreaming,
                        streamingContent, streamingThinking, isStreaming,
                        typingInterval, displayedContent, displayedThinking,
                        currentRole, hasPlaceholder, accumulatedContent,
                        accumulatedThinking, streamConversationId, pc, made>>
    /\ UNCHANGED <<authVars, parseVars, modelVars, mounted, effectVars, orphans, mounts, conversations, currentConversation, selectedModel, totalMessages,
                   hasMoreMessages, messagesOffset, isLoadingMessages, selectedId,
                   netVars, srvVars, activeConversationId, streamFrame, frames,
                   pendingStream, doneTimers, sendInput, sendImages, sendActiveId,
                   sendMsgsNonEmpty, streamConv, chunksLeft, histVars>>

\* catch (err) { ... } finally { setIsStreaming(false) }.  `messages` is the
\* list captured when handleSend was called.
Catch(err, msgs) ==
    /\ messages' = IF sendMsgsNonEmpty THEN UpdateLastMessage(msgs, ErrorText(err))
                   ELSE msgs
    /\ streamFrame' = FALSE
    /\ frames' = CancelFrame(frames, streamFrame)
    /\ Setters(<< >>, << >>, Finally(isStreaming), displayedContent, displayedThinking)
    /\ Return

UploadFail ==
    /\ pc = "upload"
    /\ Catch("upload", messages)
    /\ UNCHANGED <<authVars, parseVars, modelVars, mounted, effectVars, orphans, mounts, conversations, currentConversation, selectedModel, totalMessages,
                   hasMoreMessages, messagesOffset, isLoadingMessages, selectedId,
                   netVars, srvVars, input, images, activeConversationId,
                   justFinishedStreaming, pendingStream, doneTimers, sendNo,
                   sentRuns, srvStream, sealed, lastFetch, navs>>

\* The conversation the backend serves a chat request in: the one named, or a
\* new one.
ChatConv(aid, n) == IF aid # NoConv THEN aid ELSE 2 + n

\* fetch resolved with response.ok: the backend has taken the user's message.
FetchOk(budget) ==
    /\ pc = "fetch"
    /\ sendActiveId = NoConv \/ sendActiveId \in srvConvs
    /\ LET c == ChatConv(sendActiveId, sendNo)
       IN  /\ streamConv' = c
           /\ srvConvs' = srvConvs \cup {c}
           /\ srvTotal' = [srvTotal EXCEPT ![c] = @ + 1]
    /\ pc' = "stream"
    /\ chunksLeft' = budget
    /\ srvStream' = "open"
    /\ UNCHANGED <<authVars, parseVars, modelVars, mounted, effectVars, orphans, mounts, made, storeVars, selectedId, netVars, input, images, isStreaming,
                   activeConversationId, presenterVars, uploaded, sendInput,
                   sendImages, sendActiveId, sendMsgsNonEmpty, currentRole,
                   hasPlaceholder, accumulatedContent, accumulatedThinking,
                   streamConversationId, sendNo, inFlight, sentRuns, sealed,
                   lastFetch, navs>>

\* fetch rejected, or !response.ok, or no readable body.
FetchFail(err) ==
    /\ pc = "fetch"
    /\ Catch(err, messages)
    /\ UNCHANGED <<authVars, parseVars, modelVars, mounted, effectVars, orphans, mounts, conversations, currentConversation, selectedModel, totalMessages,
                   hasMoreMessages, messagesOffset, isLoadingMessages, selectedId,
                   netVars, srvVars, input, images, activeConversationId,
                   justFinishedStreaming, pendingStream, doneTimers, sendNo,
                   sentRuns, srvStream, sealed, lastFetch, navs>>

\* ---------------------------------------------------- the stream reconciler
\* The objects the backend may put on the stream of conversation c: any of
\* message, conversation_id and done may be present in one object.  The k-th
\* object's content delta is empty or the k-th letter.  A message's role is
\* any string, the empty one (or none) included.
Deltas(k) == {<< >>, <<Letters[k]>>}
MsgChunks(c, k) ==
    {[cid |-> i, done |-> d, msg |-> TRUE, role |-> r, content |-> t, thinking |-> th] :
        i \in {NoConv, c}, d \in BOOLEAN, r \in Roles, t \in Deltas(k),
        th \in ThinkDeltas}
BareChunks(c) ==
    {[cid |-> i, done |-> d, msg |-> FALSE, role |-> "", content |-> << >>,
      thinking |-> << >>] : i \in {NoConv, c}, d \in BOOLEAN}
Chunks(c, k) == MsgChunks(c, k) \cup BareChunks(c)

\* What the backend has sent so far, as maximal runs of equal-role fragments
\* (a message inside the done object is not a fragment).
AddFragment(runs, ch) ==
    IF runs = << >> \/ runs[Len(runs)].role # ch.role
    THEN Append(runs, [role |-> ch.role, content |-> ch.content,
                       thinking |-> ch.thinking])
    ELSE [runs EXCEPT ![Len(runs)] =
              [@ EXCEPT !.content = @ \o ch.content, !.thinking = @ \o ch.thinking]]
SentAfter(ch) == IF ch.msg /\ ~ch.done THEN AddFragment(sentRuns, ch) ELSE sentRuns

\* A role change in a stream: a fragment whose role is not that of the
\* fragment the backend sent before it (history: read off the runs sent, not
\* off the reconciler's currentRole).
RoleChange(runs, ch) == runs # << >> /\ ch.role # runs[Len(runs)].role

\* setCurrentConversationId(...) returns nothing, so the `.catch(...)` chained
\* on its result raises a TypeError inside the try block.
SetCurrentConversationIdReturnsPromise == FALSE

\* accumulatedContent += chunk.message.content
AccumulateContent(acc, delta) == acc \o delta

\* accumulatedThinking += chunk.message.thinking
AccumulateThinking(acc, delta) == acc \o delta

\* The message list after a message fragment ch of a handleSend whose locals
\* are role, placeholder and acc (role-change branch, first fragment branch,
\* same-role branch), n the number of the send and k the number of messages
\* it has created after the user's.
Reconcile(msgs, ch, k, role, placeholder, acc, n) ==
    IF role # "" /\ ch.role # role
    THEN AddMessage(UpdateLastMessage(msgs, acc),
                    Msg(NoConv, 0, ch.role, << >>, << >>, n, k + 1))
    ELSE IF role = ""
    THEN IF placeholder
         THEN UpdateLastMessage(msgs, ch.content)
         ELSE AddMessage(msgs, Msg(NoConv, 0, ch.role, << >>, << >>, n, k + 1))
    ELSE msgs

ReconcileMessages(msgs, ch, k) ==
    Reconcile(msgs, ch, k, currentRole, hasPlaceholder, accumulatedContent, sendNo)

\* if (chunk.message) { ... }: locals, store and mailbox after a fragment.
MessageBranch(ch) ==
    LET fresh == currentRole = "" \/ ch.role # currentRole
        acc == IF fresh THEN ch.content
               ELSE AccumulateContent(accumulatedContent, ch.content)
        accT == AccumulateThinking(IF fresh THEN << >> ELSE accumulatedThinking,
                                   ch.thinking)
        scheduled == fresh \/ ch.content # << >> \/ ch.thinking # << >>
    IN  /\ messages' = ReconcileMessages(messages, ch, made)
        /\ made' = made + Len(messages') - Len(messages)
        /\ Locals(ch.role, IF currentRole = "" THEN FALSE ELSE hasPlaceholder,
                  acc, accT, streamConversationId')
        /\ displayedThinking' = IF fresh THEN SetState(<< >>, displayedThinking)
                              ELSE displayedThinking
        /\ pendingStream' = IF scheduled THEN [content |-> acc, thinking |-> accT]
                            ELSE pendingStream
        /\ streamFrame' = (streamFrame \/ scheduled)
        /\ frames' = IF scheduled THEN RequestFrame(frames, streamFrame) ELSE frames
        /\ sealed' = IF RoleChange(sentRuns, ch)
                     THEN sealed \cup {[snd |-> sendNo, run |-> made,
                                        content |-> sentRuns[Len(sentRuns)].content]}
                     ELSE sealed

\* if (chunk.done) { ... break }, then finally.
DoneBranch ==
    /\ messages' = IF accumulatedContent # << >> \/ accumulatedThinking # << >>
                   THEN UpdateLastMessage(messages, accumulatedContent)
                   ELSE messages
    /\ doneTimers' = doneTimers + 1
    /\ Setters(streamingContent, streamingThinking, Finally(isStreaming),
               displayedContent, displayedThinking)
    /\ Return

\* A reconciler that never tells the widget the identifier of a fragment.
KeptId(newId, cid, aid) == aid

\* if (chunk.conversation_id && !streamConversationId)
\*     setActiveConversationId(chunk.conversation_id)
AssignedId(newId, cid, aid) == IF newId THEN cid ELSE aid

\* One iteration of `for await (const chunk of stream)`.
StreamChunk(ch) ==
    /\ pc = "stream"
    /\ chunksLeft > 0 \/ ch.done
    /\ sentRuns' = SentAfter(ch)
    /\ srvStream' = IF ch.cid # NoConv /\ streamConversationId = NoConv
                        /\ ~SetCurrentConversationIdReturnsPromise
                     THEN IF ch.done THEN "unread" ELSE srvStream
                     ELSE IF ch.done THEN "done" ELSE srvStream
    /\ srvTotal' = IF Len(sentRuns') > Len(sentRuns)
                   THEN [srvTotal EXCEPT ![streamConv] = @ + 1] ELSE srvTotal
    /\ LET newId == ch.cid # NoConv /\ streamConversationId = NoConv
       IN  /\ currentConversation' = IF newId THEN SetCurrentConversationId(ch.cid)
                                     ELSE currentConversation
           /\ activeConversationId' =
                  SetState(AssignedId(newId, ch.cid, activeConversationId),
                           activeConversationId)
           /\ IF newId /\ ~SetCurrentConversationIdReturnsPromise
              THEN /\ Catch("type", messages)
                   /\ UNCHANGED <<justFinishedStreaming, pendingStream, doneTimers,
                                  sealed>>
              ELSE IF ch.done
              THEN /\ DoneBranch
                   /\ UNCHANGED <<justFinishedStreaming, pendingStream, streamFrame, frames,
                                  sealed>>
              ELSE IF ch.msg
              THEN /\ streamConversationId' = IF newId THEN ch.cid
                                              ELSE streamConversationId
                   /\ MessageBranch(ch)
                   /\ chunksLeft' = chunksLeft - 1
                   /\ UNCHANGED <<pc, uploaded, sendInput, sendImages, sendActiveId,
                                  sendMsgsNonEmpty, streamConv, inFlight, isStreaming,
                                  streamingContent, streamingThinking,
                                  displayedContent, typingInterval,
                                  justFinishedStreaming, doneTimers>>
              ELSE /\ streamConversationId' = IF newId THEN ch.cid
                                              ELSE streamConversationId
                   /\ chunksLeft' = chunksLeft - 1
                   /\ UNCHANGED <<messages, pc, uploaded, sendInput, sendImages,
                                  sendActiveId, sendMsgsNonEmpty, streamConv, inFlight,
                                  isStreaming, presenterVars, currentRole,
                                  hasPlaceholder, accumulatedContent,
                                  accumulatedThinking, sealed, made>>
    /\ UNCHANGED <<authVars, parseVars, modelVars, mounted, effectVars, orphans, mounts, conversations, selectedModel, totalMessages, hasMoreMessages,
                   messagesOffset, isLoadingMessages, selectedId, netVars, srvConvs,
                   input, images, sendNo, lastFetch, navs>>

\* reader.read() reports the end of the body: the loop ends without a done
\* marker, then finally.
StreamEnd ==
    /\ pc = "stream"
    /\ srvStream' = "closed"
    /\ Setters(streamingContent, streamingThinking, Finally(isStreaming),
               displayedContent, displayedThinking)
    /\ Return
    /\ UNCHANGED <<authVars, parseVars, modelVars, mounted, effectVars, orphans, mounts, storeVars, selectedId, netVars, srvVars, input, images,
                   activeConversationId, justFinishedStreaming, streamFrame, frames,
                   pendingStream, doneTimers, sendNo, sentRuns, sealed, lastFetch, navs>>

\* reader.read() rejects: the transport failed mid-stream.
StreamError ==
    /\ pc = "stream"
    /\ srvStream' = "failed"
    /\ Catch("net", messages)
    /\ UNCHANGED <<authVars, parseVars, modelVars, mounted, effectVars, orphans, mounts, conversations, currentConversation, selectedModel, totalMessages,
                   hasMoreMessages, messagesOffset, isLoadingMessages, selectedId,
                   netVars, srvVars, input, images, activeConversationId,
                   justFinishedStreaming, pendingStream, doneTimers, sendNo,
                   sentRuns, sealed, lastFetch, navs>>

\* The reconciler stopped reading on an exception; the backend, unaware, sends
\* the rest of its response, here the done marker.
BackendFinish ==
    /\ pc = "idle"
    /\ srvStream = "open"
    /\ srvStream' = "unread"
    /\ UNCHANGED <<authVars, parseVars, modelVars, mounted, effectVars, orphans, mounts, made, storeVars, selectedId, netVars, srvVars, input, images,
                   isStreaming, activeConversationId, presenterVars, sendVars,
                   sendNo, inFlight, sentRuns, sealed, lastFetch, navs>>

\* ------------------------------------- the handleSend of a replaced widget
\* A handleSend goes on when its widget is unmounted: it reads its stream and
\* writes the store the new widget shows, its state setters do nothing, and
\* its refs are those of the old widget.  orphans[i] is such a handleSend as
\* Leftover recorded it.
Quiet(o) ==
    [o EXCEPT !.pc = "idle", !.uploaded = 0, !.sendInput = << >>,
              !.sendImages = 0, !.sendActiveId = NoConv,
              !.sendMsgsNonEmpty = FALSE, !.currentRole = "",
              !.hasPlaceholder = FALSE, !.accumulatedContent = << >>,
              !.accumulatedThinking = << >>, !.streamConversationId = NoConv,
              !.streamConv = NoConv, !.chunksLeft = 0, !.made = 0]

\* The record is kept as long as something of it is still to run.
SetOrphan(i, o) ==
    orphans' = IF Active(o) THEN [orphans EXCEPT ![i] = o] ELSE RemoveAt(orphans, i)

\* The catch block and finally of orphans[i].
OrphanCatch(i, err) ==
    LET o == orphans[i]
    IN  /\ messages' = IF o.sendMsgsNonEmpty
                       THEN UpdateLastMessage(messages, ErrorText(err))
                       ELSE messages
        /\ SetOrphan(i, [Quiet(o) EXCEPT !.streamFrame = FALSE,
                             !.frames = CancelFrame(o.frames, o.streamFrame)])

OrphanUploadDone(i) ==
    /\ i \in DOMAIN orphans
    /\ orphans[i].pc = "upload"
    /\ LET o == orphans[i]
       IN  IF UploadedAll(o.uploaded + 1, o.sendImages)
           THEN /\ messages' = AddMessage(AddMessage(messages,
                                   Msg(NoConv, 0, "user", o.sendInput, << >>, o.snd, 0)),
                                   Msg(NoConv, 0, "assistant", << >>, << >>, o.snd, 1))
                /\ SetOrphan(i, [o EXCEPT !.uploaded = @ + 1, !.pc = "fetch",
                                     !.currentRole = "", !.hasPlaceholder = TRUE,
                                     !.accumulatedContent = << >>,
                                     !.accumulatedThinking = << >>,
                                     !.streamConversationId = o.sendActiveId,
                                     !.made = 1])
           ELSE /\ SetOrphan(i, [o EXCEPT !.uploaded = @ + 1])
                /\ UNCHANGED messages
    /\ UNCHANGED <<authVars, parseVars, modelVars, mounted, effectVars, mounts, made, conversations,
                   selectedModel, totalMessages, hasMoreMessages, messagesOffset,
                   isLoadingMessages, selectedId, netVars, input, images,
                   isStreaming, activeConversationId, presenterVars, sendVars,
                   sendNo, inFlight, sentRuns, srvStream, lastFetch, navs, currentConversation, srvVars, sealed>>

OrphanUploadFail(i) ==
    /\ i \in DOMAIN orphans
    /\ orphans[i].pc = "upload"
    /\ OrphanCatch(i, "upload")
    /\ UNCHANGED <<authVars, parseVars, modelVars, mounted, effectVars, mounts, made, conversations,
                   selectedModel, totalMessages, hasMoreMessages, messagesOffset,
                   isLoadingMessages, selectedId, netVars, input, images,
                   isStreaming, activeConversationId, presenterVars, sendVars,
                   sendNo, inFlight, sentRuns, srvStream, lastFetch, navs, currentConversation, srvVars, sealed>>

OrphanFetchOk(i, budget) ==
    /\ i \in DOMAIN orphans
    /\ orphans[i].pc = "fetch"
    /\ orphans[i].sendActiveId = NoConv \/ orphans[i].sendActiveId \in srvConvs
    /\ LET o == orphans[i]
           c == ChatConv(o.sendActiveId, o.snd)
       IN  /\ srvConvs' = srvConvs \cup {c}
           /\ srvTotal' = [srvTotal EXCEPT ![c] = @ + 1]
           /\ SetOrphan(i, [o EXCEPT !.pc = "stream", !.streamConv = c,
                                !.chunksLeft = budget])
    /\ UNCHANGED <<authVars, parseVars, modelVars, mounted, effectVars, mounts, made, conversations,
                   selectedModel, totalMessages, hasMoreMessages, messagesOffset,
                   isLoadingMessages, selectedId, netVars, input, images,
                   isStreaming, activeConversationId, presenterVars, sendVars,
                   sendNo, inFlight, sentRuns, srvStream, lastFetch, navs, currentConversation, messages, sealed>>

OrphanFetchFail(i, err) ==
    /\ i \in DOMAIN orphans
    /\ orphans[i].pc = "fetch"
    /\ OrphanCatch(i, err)
    /\ UNCHANGED <<authVars, parseVars, modelVars, mounted, effectVars, mounts, made, conversations,
                   selectedModel, totalMessages, hasMoreMessages, messagesOffset,
                   isLoadingMessages, selectedId, netVars, input, images,
                   isStreaming, activeConversationId, presenterVars, sendVars,
                   sendNo, inFlight, sentRuns, srvStream, lastFetch, navs, currentConversation, srvVars, sealed>>

\* One iteration of the loop of orphans[i].
OrphanStreamChunk(i, ch) ==
    /\ i \in DOMAIN orphans
    /\ orphans[i].pc = "stream"
    /\ orphans[i].chunksLeft > 0 \/ ch.done
    /\ LET o == orphans[i]
           newId == ch.cid # NoConv /\ o.streamConversationId = NoConv
           sid == IF newId THEN ch.cid ELSE o.streamConversationId
           runs == IF ch.msg /\ ~ch.done THEN AddFragment(o.runs, ch) ELSE o.runs
           fresh == o.currentRole = "" \/ ch.role # o.currentRole
           acc == IF fresh THEN ch.content
                  ELSE AccumulateContent(o.accumulatedContent, ch.content)
           accT == AccumulateThinking(IF fresh THEN << >> ELSE o.accumulatedThinking,
                                      ch.thinking)
           scheduled == fresh \/ ch.content # << >> \/ ch.thinking # << >>
           msgs == Reconcile(messages, ch, o.made, o.currentRole, o.hasPlaceholder,
                             o.accumulatedContent, o.snd)
       IN  /\ srvTotal' = IF Len(runs) > Len(o.runs)
                          THEN [srvTotal EXCEPT ![o.streamConv] = @ + 1] ELSE srvTotal
           /\ currentConversation' = IF newId THEN SetCurrentConversationId(ch.cid)
                                     ELSE currentConversation
           /\ IF newId /\ ~SetCurrentConversationIdReturnsPromise
              THEN OrphanCatch(i, "type") /\ UNCHANGED sealed
              ELSE IF ch.done
              THEN /\ messages' = IF o.accumulatedContent # << >>
                                     \/ o.accumulatedThinking # << >>
                                  THEN UpdateLastMessage(messages, o.accumulatedContent)
                                  ELSE messages
                   /\ SetOrphan(i, [Quiet(o) EXCEPT !.doneTimers = @ + 1])
                   /\ UNCHANGED sealed
              ELSE IF ch.msg
              THEN /\ messages' = msgs
                   /\ SetOrphan(i, [o EXCEPT
                          !.streamConversationId = sid,
                          !.currentRole = ch.role,
                          !.hasPlaceholder = IF o.currentRole = "" THEN FALSE ELSE @,
                          !.accumulatedContent = acc,
                          !.accumulatedThinking = accT,
                          !.made = @ + Len(msgs) - Len(messages),
                          !.runs = runs,
                          !.chunksLeft = @ - 1,
                          !.pendingStream = IF scheduled
                                            THEN [content |-> acc, thinking |-> accT]
                                            ELSE @,
                          !.streamFrame = (@ \/ scheduled),
                          !.frames = IF scheduled
                                     THEN RequestFrame(o.frames, o.streamFrame) ELSE @])
                   /\ sealed' = IF RoleChange(o.runs, ch)
                                THEN sealed \cup {[snd |-> o.snd, run |-> o.made,
                                         content |-> o.runs[Len(o.runs)].content]}
                                ELSE sealed
              ELSE /\ SetOrphan(i, [o EXCEPT !.streamConversationId = sid,
                                        !.chunksLeft = @ - 1])
                   /\ UNCHANGED <<messages, sealed>>
    /\ UNCHANGED <<authVars, parseVars, modelVars, mounted, effectVars, mounts, made, conversations,
                   selectedModel, totalMessages, hasMoreMessages, messagesOffset,
                   isLoadingMessages, selectedId, netVars, input, images,
                   isStreaming, activeConversationId, presenterVars, sendVars,
                   sendNo, inFlight, sentRuns, srvStream, lastFetch, navs, srvConvs>>

OrphanStreamEnd(i) ==
    /\ i \in DOMAIN orphans
    /\ orphans[i].pc = "stream"
    /\ SetOrphan(i, Quiet(orphans[i]))
    /\ UNCHANGED <<authVars, parseVars, modelVars, mounted, effectVars, mounts, made, conversations,
                   selectedModel, totalMessages, hasMoreMessages, messagesOffset,
                   isLoadingMessages, selectedId, netVars, input, images,
                   isStreaming, activeConversationId, presenterVars, sendVars,
                   sendNo, inFlight, sentRuns, srvStream, lastFetch, navs, currentConversation, messages, srvVars, sealed>>

OrphanStreamError(i) ==
    /\ i \in DOMAIN orphans
    /\ orphans[i].pc = "stream"
    /\ OrphanCatch(i, "net")
    /\ UNCHANGED <<authVars, parseVars, modelVars, mounted, effectVars, mounts, made, conversations,
                   selectedModel, totalMessages, hasMoreMessages, messagesOffset,
                   isLoadingMessages, selectedId, netVars, input, images,
                   isStreaming, activeConversationId, presenterVars, sendVars,
                   sendNo, inFlight, sentRuns, srvStream, lastFetch, navs, currentConversation, srvVars, sealed>>

\* The animation frame of the old widget: its setters do nothing.
OrphanFrameFire(i) ==
    /\ i \in DOMAIN orphans
    /\ orphans[i].streamFrame
    /\ SetOrphan(i, [orphans[i] EXCEPT !.streamFrame = FALSE, !.frames = @ - 1])
    /\ UNCHANGED <<authVars, parseVars, modelVars, mounted, effectVars, mounts, made, conversations,
                   selectedModel, totalMessages, hasMoreMessages, messagesOffset,
                   isLoadingMessages, selectedId, netVars, input, images,
                   isStreaming, activeConversationId, presenterVars, sendVars,
                   sendNo, inFlight, sentRuns, srvStream, lastFetch, navs, currentConversation, messages, srvVars, sealed>>

\* The 300 ms timeout of a done marker the old widget's handleSend has read.
OrphanDoneTimerFire(i) ==
    /\ i \in DOMAIN orphans
    /\ orphans[i].doneTimers > 0
    /\ SetOrphan(i, [orphans[i] EXCEPT !.doneTimers = @ - 1, !.streamFrame = FALSE,
                         !.frames = CancelFrame(orphans[i].frames,
                                                orphans[i].streamFrame)])
    /\ UNCHANGED <<authVars, parseVars, modelVars, mounted, effectVars, mounts, made, conversations,
                   selectedModel, totalMessages, hasMoreMessages, messagesOffset,
                   isLoadingMessages, selectedId, netVars, input, images,
                   isStreaming, activeConversationId, presenterVars, sendVars,
                   sendNo, inFlight, sentRuns, srvStream, lastFetch, navs, currentConversation, messages, srvVars, sealed>>

\* ------------------------------------------------------------ specifications
\* The state after construction: empty store, nothing in flight, and, when the
\* main window is `shown`, its mount and the widget's: the mount requests
\* (model list; conversation list, unless `listed`: then it has arrived) in
\* flight.  The backend holds the conversations `convs`, each with a number
\* of messages of `totals`.
ClientState(convs, totals, listed, shown) ==
    /\ conversations = IF shown /\ listed THEN convs ELSE {}
    /\ currentConversation = NoConv
    /\ messages = << >>
    /\ selectedModel = ""
    /\ models = << >>
    /\ savedModel = ""
    /\ modelsSeen = TRUE
    /\ selectedSeen = ""
    /\ totalMessages = 0
    /\ hasMoreMessages = FALSE
    /\ messagesOffset = 0
    /\ isLoadingMessages = FALSE
    /\ selectedId = NoConv
    /\ lcReqs = << >>
    /\ lmReqs = << >>
    /\ delReqs = << >>
    /\ convsReq = IF shown /\ ~listed THEN 1 ELSE 0
    /\ modelsReq = IF shown THEN 1 ELSE 0
    /\ srvConvs = convs
    /\ srvTotal \in {f \in [AllConvs -> totals \cup {0}] :
                        \A c \in AllConvs : (f[c] = 0) <=> (c \notin convs)}
    /\ input = << >>
    /\ images = 0
    /\ isStreaming = FALSE
    /\ streamingContent = << >>
    /\ streamingThinking = << >>
    /\ displayedContent = << >>
    /\ displayedThinking = << >>
    /\ justFinishedStreaming = FALSE
    /\ activeConversationId = NoConv
    /\ typingInterval = FALSE
    /\ typingDeps = NoDeps
    /\ finishedDeps = FALSE
    /\ finishedTimer = FALSE
    /\ intervalTargets = NoTargets
    /\ syncedConversation = NoConv
    /\ streamFrame = FALSE
    /\ frames = 0
    /\ mounted = shown
    /\ mounts = 0
    /\ orphans = << >>
    /\ pendingStream = NoTargets
    /\ doneTimers = 0
    /\ pc = "idle"
    /\ uploaded = 0
    /\ sendInput = << >>
    /\ sendImages = 0
    /\ sendActiveId = NoConv
    /\ sendMsgsNonEmpty = FALSE
    /\ currentRole = ""
    /\ hasPlaceholder = FALSE
    /\ accumulatedContent = << >>
    /\ accumulatedThinking = << >>
    /\ streamConversationId = NoConv
    /\ streamConv = NoConv
    /\ chunksLeft = 0
    /\ made = 0
    /\ sendNo = 0
    /\ inFlight = 0
    /\ sentRuns = << >>
    /\ srvStream = "none"
    /\ sealed = {}
    /\ lastFetch = NothingFetched
    /\ navs = 0

ClientInit(convs, totals, listed) == ClientState(convs, totals, listed, TRUE)

\* ------------------------------------------------------------ authentication
\* A token or a user that is null is the empty string.
Tokens == {"t1", "t2"}
UserOf(token) == IF token = "t1" THEN "u1" ELSE "u2"

\* A persisted token alone.
HasToken(token, remember) == token # ""

\* authStore.initializeAuth: `if (token && rememberMe)`.
HasSession(token, remember) == token # "" /\ remember

\* App renders MainWindow when the store becomes authenticated: MainWindow's
\* state is initial, its mount effect requests the conversation list, and a
\* ChatWidget is mounted.
MountMainWindow ==
    /\ selectedId' = NoConv
    /\ convsReq' = convsReq + 1
    /\ MountWidget
    /\ UNCHANGED <<conversations, currentConversation, messages, totalMessages,
                   hasMoreMessages, messagesOffset, isLoadingMessages, models,
                   lcReqs, lmReqs, delReqs, srvVars, mounts, sendNo,
                   sealed, lastFetch, navs>>

\* App renders LoginWindow when the store stops being authenticated:
\* MainWindow and the widget or settings page it shows are unmounted; the
\* requests in flight go on, but the setters of MainWindow do nothing any more.
UnmountMainWindow ==
    /\ IF mounted THEN Cleanups
       ELSE UNCHANGED <<mounted, typingInterval, intervalTargets, streamFrame, frames,
                        finishedTimer>>
    /\ delReqs' = [i \in DOMAIN delReqs |-> [delReqs[i] EXCEPT !.live = FALSE]]
    /\ UNCHANGED <<storeVars, modelVars, selectedId, lcReqs, lmReqs, convsReq, modelsReq,
                   srvVars, input, images, isStreaming, activeConversationId,
                   streamingContent, streamingThinking, displayedContent,
                   displayedThinking, justFinishedStreaming, pendingStream,
                   doneTimers, typingDeps, syncedConversation, finishedDeps, orphans, mounts,
                   made, sendVars, histVars>>

\* App's mount effect calls initializeAuth: without a persisted session it
\* returns at once and the App stops initializing; with one it hands the token
\* to the API client and fetches the profile.
InitializeAuth ==
    /\ authPc = "init"
    /\ IF HasSession(storedToken, storedRemember)
       THEN /\ apiToken' = storedToken
            /\ authPc' = "initFetch"
            /\ initFetches' = initFetches + 1
            /\ UNCHANGED <<initializing, initResult>>
       ELSE /\ authPc' = "idle"
            /\ initializing' = FALSE
            /\ initResult' = "skipped"
            /\ UNCHANGED <<apiToken, initFetches>>
    /\ UNCHANGED <<clientVars, parseVars, saveVars, storedToken, storedRemember,
                   isAuthenticated, user, rememberMe, loginRemember,
                   srvTokens, logins, restarts>>

\* The backend accepted the token of initializeAuth's profile fetch.
InitializeAuthOk ==
    /\ authPc = "initFetch"
    /\ apiToken \in srvTokens
    /\ isAuthenticated' = TRUE
    /\ user' = UserOf(apiToken)
    /\ rememberMe' = TRUE
    /\ authPc' = "idle"
    /\ initializing' = FALSE
    /\ initResult' = "ok"
    /\ MountMainWindow
    /\ UNCHANGED <<parseVars, saveVars, storedToken, storedRemember,
                   apiToken, loginRemember, srvTokens, initFetches, logins,
                   restarts>>

\* initializeAuth's profile fetch failed (token rejected, or no answer).
InitializeAuthFail ==
    /\ authPc = "initFetch"
    /\ storedToken' = ""
    /\ storedRemember' = FALSE
    /\ apiToken' = ""
    /\ isAuthenticated' = FALSE
    /\ user' = ""
    /\ rememberMe' = FALSE
    /\ authPc' = "idle"
    /\ initializing' = FALSE
    /\ initResult' = "failed"
    /\ UNCHANGED <<clientVars, parseVars, saveVars, loginRemember, srvTokens,
                   initFetches, logins, restarts>>

\* LoginWindow.handleSubmit calls authStore.login or authStore.register with
\* the remember-me checkbox.
LoginCall(op, remember) ==
    /\ authPc = "idle"
    /\ ~initializing
    /\ ~isAuthenticated
    /\ logins < MaxLogins
    /\ authPc' = op
    /\ loginRemember' = remember
    /\ logins' = logins + 1
    /\ UNCHANGED <<clientVars, parseVars, saveVars, storedToken, storedRemember,
                   apiToken, isAuthenticated, user, rememberMe, initializing,
                   srvTokens, initFetches, initResult, restarts>>

\* POST /login or /register answered with a token: the API client keeps it,
\* the store persists it or purges the persisted one, and the profile fetch
\* starts.
LoginOk(token) ==
    /\ authPc \in {"login", "register"}
    /\ apiToken' = token
    /\ srvTokens' = srvTokens \cup {token}
    /\ IF loginRemember
       THEN storedToken' = token /\ storedRemember' = TRUE
       ELSE storedToken' = "" /\ storedRemember' = FALSE
    /\ authPc' = "profile"
    /\ UNCHANGED <<clientVars, parseVars, saveVars, isAuthenticated, user, rememberMe,
                   initializing, loginRemember, initFetches, initResult,
                   logins, restarts>>

\* POST /login or /register failed: the store's promise rejects.
LoginFail ==
    /\ authPc \in {"login", "register"}
    /\ authPc' = "idle"
    /\ UNCHANGED <<clientVars, parseVars, saveVars, storedToken, storedRemember,
                   apiToken, isAuthenticated, user, rememberMe, initializing,
                   loginRemember, srvTokens, initFetches, initResult, logins,
                   restarts>>

\* The profile fetch of login or register succeeded.
ProfileOk ==
    /\ authPc = "profile"
    /\ apiToken \in srvTokens
    /\ isAuthenticated' = TRUE
    /\ user' = UserOf(apiToken)
    /\ rememberMe' = loginRemember
    /\ authPc' = "idle"
    /\ MountMainWindow
    /\ UNCHANGED <<parseVars, saveVars, storedToken, storedRemember,
                   apiToken, initializing, loginRemember, srvTokens,
                   initFetches, initResult, logins, restarts>>

\* The profile fetch of login or register failed: the store's promise
\* rejects and nothing is undone.
ProfileFail ==
    /\ authPc = "profile"
    /\ authPc' = "idle"
    /\ UNCHANGED <<clientVars, parseVars, saveVars, storedToken, storedRemember,
                   apiToken, isAuthenticated, user, rememberMe, initializing,
                   loginRemember, srvTokens, initFetches, initResult, logins,
                   restarts>>

\* authStore.logout, called by the logout button of MainWindow.
Logout ==
    /\ authPc = "idle"
    /\ isAuthenticated
    /\ apiToken' = ""
    /\ storedToken' = ""
    /\ storedRemember' = FALSE
    /\ isAuthenticated' = FALSE
    /\ user' = ""
    /\ rememberMe' = FALSE
    /\ UnmountMainWindow
    /\ CloseSettings
    /\ UNCHANGED <<parseVars, initializing, authPc,
                   loginRemember, srvTokens, initFetches, initResult, logins,
                   restarts>>

\* authStore.loadUserProfile up to its await: GET /users/me is sent with the
\* API client's token, whatever the state of the store.  `live`: the Save
\* handler that awaits it belongs to the settings page shown.
LoadUserProfileCall(live) ==
    profileReq' = Append(profileReq, [token |-> apiToken, live |-> live])

\* `await apiClient.updateUserAvatars(...)`: the API client has no method of
\* that name, so the call raises a TypeError before anything is sent; the
\* handler ends through its catch block and `finally { setIsSaving(false) }`.
\* The value is isSaving after it.
UpdateUserAvatars(saving) == FALSE

\* The Save button of the settings page (disabled while isSaving):
\* handleSaveAccountSettings up to its first await.  `text`: a system prompt
\* or a preferred name is in the form; `avatars`: an avatar file has been
\* chosen.  With neither, the first await is that of loadUserProfile; with
\* avatars only, the handler ends in the call of updateUserAvatars.
HandleSaveAccountSettings(text, avatars) ==
    /\ SettingsShown
    /\ ~isSaving
    /\ Len(saveReqs) + Len(profileReq) < MaxProfileLoads
    /\ IF text
       THEN /\ isSaving' = TRUE
            /\ saveReqs' = Append(saveReqs, [avatars |-> avatars,
                                             token |-> apiToken, live |-> TRUE])
            /\ UNCHANGED profileReq
       ELSE IF avatars
       THEN /\ isSaving' = UpdateUserAvatars(TRUE)
            /\ UNCHANGED <<saveReqs, profileReq>>
       ELSE /\ isSaving' = TRUE
            /\ LoadUserProfileCall(TRUE)
            /\ UNCHANGED saveReqs
    /\ UNCHANGED <<clientVars, parseVars, authRest>>

\* The i-th update request in flight (PUT /users/me) is answered: the handler
\* goes on to the avatars, if it has any, and else calls loadUserProfile.
SaveRequestOk(i) ==
    /\ i \in DOMAIN saveReqs
    /\ saveReqs[i].token \in srvTokens
    /\ saveReqs' = RemoveAt(saveReqs, i)
    /\ IF saveReqs[i].avatars
       THEN /\ isSaving' = IF saveReqs[i].live THEN UpdateUserAvatars(isSaving)
                           ELSE isSaving
            /\ UNCHANGED profileReq
       ELSE /\ LoadUserProfileCall(saveReqs[i].live)
            /\ UNCHANGED isSaving
    /\ UNCHANGED <<clientVars, parseVars, authRest>>

\* The i-th update request failed: catch, and finally setIsSaving(false).
SaveRequestFail(i) ==
    /\ i \in DOMAIN saveReqs
    /\ saveReqs' = RemoveAt(saveReqs, i)
    /\ isSaving' = IF saveReqs[i].live THEN FALSE ELSE isSaving
    /\ UNCHANGED <<clientVars, parseVars, authRest, profileReq>>

\* loadUserProfile after the await: set({ user }).
SetUser(profile) == profile

\* The i-th profile request in flight is answered; the Save handler that
\* awaited it ends with setIsSaving(false).
LoadUserProfileOk(i) ==
    /\ i \in DOMAIN profileReq
    /\ profileReq[i].token \in srvTokens
    /\ user' = SetUser(UserOf(profileReq[i].token))
    /\ profileReq' = RemoveAt(profileReq, i)
    /\ isSaving' = IF profileReq[i].live THEN FALSE ELSE isSaving
    /\ UNCHANGED <<clientVars, parseVars, saveReqs, storedToken, storedRemember,
                   apiToken, isAuthenticated, rememberMe, initializing,
                   authPc, loginRemember, srvTokens, initFetches, initResult,
                   logins, restarts>>

\* The i-th profile request of loadUserProfile failed: the promise rejects,
\* and the Save handler ends through its catch block.
LoadUserProfileFail(i) ==
    /\ i \in DOMAIN profileReq
    /\ profileReq' = RemoveAt(profileReq, i)
    /\ isSaving' = IF profileReq[i].live THEN FALSE ELSE isSaving
    /\ UNCHANGED <<clientVars, parseVars, saveReqs, authRest>>

\* authStore.setRememberMe: set({ rememberMe: remember }).
SetRememberMe(remember) ==
    /\ rememberMe # remember
    /\ rememberMe' = remember
    /\ UNCHANGED <<clientVars, parseVars, saveVars, storedToken, storedRemember,
                   apiToken, isAuthenticated, user, initializing, authPc,
                   loginRemember, srvTokens, initFetches, initResult, logins,
                   restarts>>

\* The state of the API client, the auth store and the App after
\* construction, over the given persistent storage.
Started(token, remember) ==
    /\ storedToken = token
    /\ storedRemember = remember
    /\ apiToken = ""
    /\ isAuthenticated = FALSE
    /\ user = ""
    /\ rememberMe = remember
    /\ initializing = TRUE
    /\ authPc = "init"
    /\ loginRemember = FALSE
    /\ profileReq = << >>
    /\ saveReqs = << >>
    /\ isSaving = FALSE
    /\ initFetches = 0
    /\ initResult = "pending"

\* The application is closed and started again: the persistent storage and
\* the backend survive, everything else (stores, windows, requests in flight)
\* is constructed anew.
Restart ==
    /\ restarts < MaxRestarts
    /\ restarts' = restarts + 1
    /\ apiToken' = ""
    /\ isAuthenticated' = FALSE
    /\ user' = ""
    /\ rememberMe' = storedRemember
    /\ initializing' = TRUE
    /\ authPc' = "init"
    /\ loginRemember' = FALSE
    /\ profileReq' = << >>
    /\ saveReqs' = << >>
    /\ isSaving' = FALSE
    /\ initFetches' = 0
    /\ initResult' = "pending"
    /\ conversations' = {}
    /\ currentConversation' = NoConv
    /\ messages' = << >>
    /\ selectedModel' = ""
    /\ models' = << >>
    /\ modelsSeen' = TRUE
    /\ selectedSeen' = ""
    /\ totalMessages' = 0
    /\ hasMoreMessages' = FALSE
    /\ messagesOffset' = 0
    /\ isLoadingMessages' = FALSE
    /\ selectedId' = NoConv
    /\ lcReqs' = << >>
    /\ lmReqs' = << >>
    /\ delReqs' = << >>
    /\ convsReq' = 0
    /\ modelsReq' = 0
    /\ mounted' = FALSE
    /\ input' = << >>
    /\ images' = 0
    /\ isStreaming' = FALSE
    /\ streamingContent' = << >>
    /\ streamingThinking' = << >>
    /\ displayedContent' = << >>
    /\ displayedThinking' = << >>
    /\ justFinishedStreaming' = FALSE
    /\ activeConversationId' = NoConv
    /\ syncedConversation' = NoConv
    /\ typingInterval' = FALSE
    /\ intervalTargets' = NoTargets
    /\ typingDeps' = NoDeps
    /\ finishedDeps' = FALSE
    /\ finishedTimer' = FALSE
    /\ streamFrame' = FALSE
    /\ frames' = 0
    /\ pendingStream' = NoTargets
    /\ doneTimers' = 0
    /\ orphans' = << >>
    /\ Idle
    /\ inFlight' = 0
    /\ sentRuns' = << >>
    /\ srvStream' = "none"
    /\ lastFetch' = NothingFetched
    /\ UNCHANGED <<parseVars, savedModel, storedToken, storedRemember, srvTokens,
                   logins, srvVars, mounts, sendNo, sealed, navs>>

\* The signed-in session under which the main window and the chat run.
SignedIn ==
    /\ storedToken = ""
    /\ storedRemember = FALSE
    /\ apiToken = "t1"
    /\ isAuthenticated = TRUE
    /\ user = "u1"
    /\ rememberMe = FALSE
    /\ initializing = FALSE
    /\ authPc = "idle"
    /\ loginRemember = FALSE
    /\ profileReq = << >>
    /\ saveReqs = << >>
    /\ isSaving = FALSE
    /\ srvTokens = {"t1"}
    /\ initFetches = 0
    /\ initResult = "skipped"
    /\ logins = 1
    /\ restarts = 0

\* No response is being read.
NoResponse ==
    /\ reads = << >>
    /\ buffer = << >>
    /\ lines = << >>
    /\ yielded = << >>
    /\ parsePc = "idle"
    /\ responseText = << >>

InitWith(convs, totals, listed) ==
    /\ ClientInit(convs, totals, listed)
    /\ SignedIn
    /\ NoResponse

\* The model follows the user's navigation until the last send it follows has
\* returned, and MaxNavs navigations at most.
Watching(cap) == (sendNo < cap \/ pc # "idle") /\ navs < MaxNavs

\* Chat: the first send of a widget and its stream, with the user switching
\* conversations meanwhile; the backend's conversation fits in one page.
Init == InitWith({1}, SmallTotals, TRUE)

Next ==
    \/ \E ms \in {<< >>, <<"m">>} : LoadModelsDone(ms)
    \/ Watching(1) /\ \E id \in AllConvs : LoadConversationCall(id)
    \/ \E id \in AllConvs : LoadConversationDone(id)
    \/ Watching(1) /\ CreateNewConversation
    \/ SyncActiveId
    \/ \E t \in Inputs : SetInput(t, 1)
    \/ AttachImage(1)
    \/ RemoveImage
    \/ HandleSend(1)
    \/ UploadDone
    \/ UploadFail
    \/ FetchOk(MaxChunks)
    \/ FetchFail("http")
    \/ \E ch \in Chunks(streamConv, MaxChunks - chunksLeft + 1) : StreamChunk(ch)
    \/ StreamEnd
    \/ StreamError
    \/ BackendFinish

Spec == Init /\ [][Next]_vars

\* Store: two conversations of one to three pages, selected, paged through,
\* left and deleted in any order, with a short send going on.
StoreChunkSet(c, k) ==
    {ch \in Chunks(c, k) : ch.cid = NoConv /\ ch.thinking = << >>
                           /\ (ch.msg => ch.role = "assistant")}

InitStore == InitWith(InitConvs, LargeTotals, FALSE)

NextStore ==
    \/ LoadConversationsDone
    \/ LoadModelsDone(<<"m">>)
    \/ navs < StoreNavs /\ \E id \in AllConvs : LoadConversationCall(id)
    \/ \E id \in AllConvs : LoadConversationDone(id)
    \/ \E id \in AllConvs : LoadConversationFail(id)
    \/ LoadMoreCall
    \/ \E i \in 1 .. MaxLoadMore : LoadMoreDone(i)
    \/ \E i \in 1 .. MaxLoadMore : LoadMoreFail(i)
    \/ navs < StoreNavs /\ CreateNewConversation
    \/ navs < StoreNavs /\ DeleteCall
    \/ \E i \in 1 .. StoreNavs : DeleteDone(i)
    \/ \E i \in 1 .. StoreNavs : DeleteFail(i)
    \/ SyncActiveId
    \/ SetInput(<<"h">>, StoreSends)
    \/ HandleSend(StoreSends)
    \/ FetchOk(StoreChunks)
    \/ FetchFail("http")
    \/ \E ch \in StoreChunkSet(streamConv, StoreChunks - chunksLeft + 1) : StreamChunk(ch)
    \/ StreamEnd
    \/ StreamError

SpecStore == InitStore /\ [][NextStore]_vars

\* Typing: one send whose fragments carry three characters each, with the
\* animation frame, the typing interval and the two timeouts running.
Thrice(t) == t \o t \o t
TypingChunkSet(c, k) ==
    {[ch EXCEPT !.content = Thrice(@), !.thinking = Thrice(@)] :
        ch \in {x \in Chunks(c, k) :
                   x.cid = NoConv /\ (x.msg => x.role \in {"assistant", "tool"})}}

NextTyping ==
    \/ LoadModelsDone(<<"m">>)
    \/ SetInput(<<"h">>, 1)
    \/ HandleSend(1)
    \/ FetchOk(TypingChunks)
    \/ \E ch \in TypingChunkSet(streamConv, TypingChunks - chunksLeft + 1) : StreamChunk(ch)
    \/ StreamEnd
    \/ StreamError
    \/ FrameFire
    \/ TypingEffect
    \/ Tick
    \/ DoneTimerFire
    \/ FinishedEffect
    \/ FinishedTimerFire

SpecTyping == Init /\ [][NextTyping]_vars

\* Sends: MaxSends sends of one widget, one after the other, each with images
\* or without and with a stream of ShortStream fragments; the model list is
\* reloaded and the user chooses among its models.
ModelLists == {<< >>, <<"m">>, <<"m", "n">>}

NextSends ==
    \/ sendNo < MaxSends /\ LoadModelsCall
    \/ \E ms \in ModelLists : LoadModelsDone(ms)
    \/ LoadModelsFail
    \/ ModelEffects
    \/ \E m \in {"m", "n"} : SelectModel(m)
    \/ \E t \in Inputs : SetInput(t, MaxSends)
    \/ AttachImage(MaxSends)
    \/ RemoveImage
    \/ HandleSend(MaxSends)
    \/ UploadDone
    \/ UploadFail
    \/ FetchOk(ShortStream)
    \/ FetchFail("http")
    \/ \E ch \in Chunks(streamConv, ShortStream - chunksLeft + 1) : StreamChunk(ch)
    \/ StreamEnd
    \/ StreamError

SpecSends == Init /\ [][NextSends]_vars

\* Remount: the widget is replaced by the settings page and by a new widget
\* while a send is going on; the new widget sends as well, and the handleSend
\* of the old one goes on reading its stream.
RemountChunkSet(c, k) ==
    {ch \in Chunks(c, k) : ch.cid = NoConv /\ ch.thinking = << >>
                           /\ (ch.msg => ch.role = "assistant")}

NextRemount ==
    \/ \E ms \in ModelLists : LoadModelsDone(ms)
    \/ ModelEffects
    \/ \E m \in {"m", "n"} : SelectModel(m)
    \/ \E t \in Inputs : SetInput(t, MaxSends)
    \/ AttachImage(MaxSends)
    \/ HandleSend(MaxSends)
    \/ UploadDone
    \/ UploadFail
    \/ FetchOk(ShortStream)
    \/ FetchFail("http")
    \/ \E ch \in RemountChunkSet(streamConv, ShortStream - chunksLeft + 1) : StreamChunk(ch)
    \/ StreamEnd
    \/ StreamError
    \/ FrameFire
    \/ DoneTimerFire
    \/ Unmount
    \/ Remount
    \/ \E i \in DOMAIN orphans : OrphanUploadDone(i)
    \/ \E i \in DOMAIN orphans : OrphanUploadFail(i)
    \/ \E i \in DOMAIN orphans : OrphanFetchOk(i, ShortStream)
    \/ \E i \in DOMAIN orphans : OrphanFetchFail(i, "http")
    \/ \E i \in DOMAIN orphans :
           \E ch \in RemountChunkSet(orphans[i].streamConv,
                                     ShortStream - orphans[i].chunksLeft + 1) :
               OrphanStreamChunk(i, ch)
    \/ \E i \in DOMAIN orphans : OrphanStreamEnd(i)
    \/ \E i \in DOMAIN orphans : OrphanStreamError(i)
    \/ \E i \in DOMAIN orphans : OrphanFrameFire(i)
    \/ \E i \in DOMAIN orphans : OrphanDoneTimerFire(i)

SpecRemount == Init /\ [][NextRemount]_vars

\* ------------------------------------------------------------------- claims
\* The messages the latest send has created after the user's message, in list
\* order.
IsReply(m) == m.snd = sendNo /\ m.run >= 1
Replies == SelectSeq(messages, IsReply)

\* The reconciler has read the done marker, and every run the backend sent
\* has its message in the list.
DoneRead == pc = "idle" /\ srvStream = "done" /\ Len(Replies) = Len(sentRuns)

\* C1 (as claimed): once a stream of same-role fragments has ended with its
\* done marker, the content stored for its message is the concatenation of the
\* fragments' content deltas in arrival order.
C1_SameRoleConcatenation ==
    (pc = "idle" /\ srvStream \in {"done", "unread"} /\ Len(sentRuns) = 1)
        => \A i \in DOMAIN Replies : Replies[i].content = sentRuns[1].content

\* C2 (as claimed): at every role change in a stream the message in progress
\* holds, from then on and as long as it is in the list, the full content
\* accumulated for it, and the message of the next run stands right behind
\* it: the write-back came before the append, and no later fragment, done
\* marker or error has changed it.
C2_SealedOnRoleChange ==
    \A s \in sealed : \A i \in DOMAIN messages :
        (messages[i].snd = s.snd /\ messages[i].run = s.run)
            => /\ messages[i].content = s.content
               /\ i < Len(messages)
               /\ messages[i + 1].snd = s.snd
               /\ messages[i + 1].run = s.run + 1

\* C3 (as claimed): after done, the messages after the user's message have,
\* in order, the roles of the runs of equal-role fragments, whatever the first
\* role is.
C3_RolesOfRuns ==
    DoneRead => \A k \in DOMAIN Replies : Replies[k].role = sentRuns[k].role

\* C4 (as claimed): a finalized message's stored thinking is the concatenation
\* of the thinking deltas received while it was the active message.
C4_ThinkingStored ==
    DoneRead => \A k \in DOMAIN Replies : Replies[k].thinking = sentRuns[k].thinking

\* C5 (as claimed): while a stream is active and both targets are non-empty,
\* displayedContent is non-empty only if displayedThinking has reached the
\* full length of streamingThinking (here for a stream of one role).
C5_ThinkingBeforeContent ==
    (isStreaming /\ Len(sentRuns) = 1 /\ streamingThinking # << >>
       /\ streamingContent # << >> /\ displayedContent # << >>)
        => Len(displayedThinking) >= Len(streamingThinking)

\* The window holds messages of the backend in the backend's order, each once
\* and none left out between two of them.
InServerOrder ==
    \A i \in 1 .. Len(messages) - 1 :
        (messages[i].idx # 0 /\ messages[i + 1].idx # 0)
            => /\ messages[i + 1].conv = messages[i].conv
               /\ messages[i + 1].idx = messages[i].idx + 1

\* C6 (as claimed): after one loadConversation, any number of load-more calls
\* on that conversation and sends into it, the window holds each backend
\* message of the covered range once and in order.
C6_NoDuplicateNoSkip ==
    (navs = 1 /\ currentConversation # NoConv) => InServerOrder

\* A step that applies a fetched page to the window.
FetchApplied ==
    \/ \E id \in AllConvs : LoadConversationDone(id)
    \/ \E i \in 1 .. MaxLoadMore : LoadMoreDone(i)

\* C7: after every loadConversation and every successful loadMoreMessages,
\* hasMoreMessages is false exactly when the page just fetched was shorter
\* than the page size or the backend signalled exhaustion.
C7_HasMoreAfterFetch ==
    [][FetchApplied =>
          (hasMoreMessages' = ~(lastFetch'.len < PageSize \/ ~lastFetch'.has_more))]_vars

\* C7, witness: a load-more has brought a last, short page.
C7_Witness ==
    /\ lastFetch.len > 0
    /\ lastFetch.len < PageSize
    /\ messagesOffset > PageSize
    /\ ~hasMoreMessages
    /\ currentConversation # NoConv

\* C8 (as claimed): at most one load-more request is in flight at any time.
C8_OneLoadMoreInFlight == Len(lmReqs) <= 1

\* The window of a conversation just opened: its newest page, the backend's
\* total, more to load exactly when the total exceeds the page, the cursor
\* behind the page requested, not loading.
FreshWindow(id) ==
    /\ currentConversation = id
    /\ Len(messages) = Min(PageSize, srvTotal[id])
    /\ \A i \in DOMAIN messages :
           messages[i] = ServerMsg(id, srvTotal[id] - Len(messages) + i)
    /\ totalMessages = srvTotal[id]
    /\ hasMoreMessages = (srvTotal[id] > PageSize)
    /\ messagesOffset = PageSize
    /\ ~isLoadingMessages

\* The window of no conversation.
EmptyWindow ==
    /\ currentConversation = NoConv
    /\ messages = << >>
    /\ totalMessages = 0
    /\ ~hasMoreMessages
    /\ messagesOffset = 0
    /\ ~isLoadingMessages

\* C9: when loadConversation(id) completes the window is the fresh window of
\* id, and after createNewConversation it is the empty window, whatever was
\* open before.
C9_FreshWindowAfterSwitch ==
    [][/\ \A id \in AllConvs : LoadConversationDone(id) => FreshWindow(id)'
       /\ CreateNewConversation => EmptyWindow']_vars

\* C9, witness: a conversation has just been opened while a load-more of the
\* conversation open before is still in flight.
C9_Witness ==
    /\ currentConversation # NoConv
    /\ lmReqs # << >>
    /\ lmReqs[1].conv # currentConversation
    /\ lmReqs[1].offset > PageSize
    /\ FreshWindow(currentConversation)

\* handleSend would return at once: streaming, nothing but blanks typed, or no
\* model selected.
Blocked == isStreaming \/ Trim(input) = << >> \/ selectedModel = ""

\* C10: at most one send of the widget instance that is mounted is in flight
\* at any time (inFlight counts the sends of that instance), and a handleSend
\* called while it is blocked issues no request and changes no state: no
\* upload, no chat request, no new entry in the message list.
C10_OneSendInFlight ==
    /\ [](inFlight <= 1)
    /\ [][Blocked /\ mounted /\ HandleSend(MaxSends) => UNCHANGED vars]_vars
    /\ [][Blocked => (sendNo' = sendNo /\ inFlight' <= inFlight)]_vars

\* C10, witness: the send of the widget that was replaced is still reading its
\* stream; the new widget has a send of its own uploading its images, and
\* text and model are such that only isStreaming keeps a second handleSend of
\* the new widget from starting.
C10_Witness ==
    /\ orphans # << >>
    /\ orphans[1].pc = "stream"
    /\ mounted
    /\ pc = "upload"
    /\ inFlight = 1
    /\ sendNo = MaxSends
    /\ isStreaming
    /\ Trim(input) # << >>
    /\ selectedModel # ""

\* ------------------------------------------------- specification: sign-in
\* The application starts over any content of the persistent storage (each of
\* its two keys is written on its own), signs in and out, and is restarted.
InitAuth ==
    /\ ClientState({1}, SmallTotals, TRUE, FALSE)
    /\ NoResponse
    /\ \E token \in Tokens \cup {""}, remember \in BOOLEAN :
           Started(token, remember)
    /\ srvTokens \in SUBSET Tokens
    /\ logins = 0
    /\ restarts = 0

NextAuth ==
    \/ InitializeAuth
    \/ InitializeAuthOk
    \/ InitializeAuthFail
    \/ \E op \in {"login", "register"}, remember \in BOOLEAN :
           LoginCall(op, remember)
    \/ \E token \in Tokens : LoginOk(token)
    \/ LoginFail
    \/ ProfileOk
    \/ ProfileFail
    \/ Logout
    \/ \E remember \in BOOLEAN : SetRememberMe(remember)
    \/ LoadConversationsDone
    \/ LoadModelsDone(<<"m">>)
    \/ Restart

SpecAuth == InitAuth /\ [][NextAuth]_vars

\* Settings: a signed-in user opens the settings page and saves the account
\* settings, goes back to the chat, signs out and in again and restarts the
\* application, with the requests of the Save handlers in flight.
NextSettings ==
    \/ Unmount
    \/ Remount
    \/ \E text \in BOOLEAN, avatars \in BOOLEAN :
           HandleSaveAccountSettings(text, avatars)
    \/ \E i \in 1 .. MaxProfileLoads : SaveRequestOk(i)
    \/ \E i \in 1 .. MaxProfileLoads : SaveRequestFail(i)
    \/ \E i \in 1 .. MaxProfileLoads : LoadUserProfileOk(i)
    \/ \E i \in 1 .. MaxProfileLoads : LoadUserProfileFail(i)
    \/ Logout
    \/ \E remember \in BOOLEAN : LoginCall("login", remember)
    \/ \E token \in Tokens : LoginOk(token)
    \/ LoginFail
    \/ ProfileOk
    \/ ProfileFail
    \/ Restart
    \/ InitializeAuth
    \/ InitializeAuthOk
    \/ InitializeAuthFail

SpecSettings == Init /\ [][NextSettings]_vars

\* C11: initializeAuth fetches the profile only when a persisted token and a
\* true persisted remember-me flag both exist, and once per start at most; a
\* successful fetch leaves the store authenticated with the user fetched; a
\* failed one leaves no persisted token, no in-memory token and the store
\* anonymous with rememberMe false.
C11_SilentSignIn ==
    /\ [](initFetches <= 1)
    /\ [][InitializeAuth =>
            ((initFetches' = initFetches + 1)
                <=> (storedToken # "" /\ storedRemember))]_vars
    /\ [][InitializeAuthOk =>
            (isAuthenticated' /\ user' = UserOf(storedToken)
             /\ storedToken' = storedToken)]_vars
    /\ [][InitializeAuthFail =>
            (/\ storedToken' = "" /\ ~storedRemember' /\ apiToken' = ""
             /\ ~isAuthenticated' /\ user' = "" /\ ~rememberMe'
             /\ initFetches' = initFetches)]_vars

\* A start over a persisted session whose profile fetch failed.
C11_Witness ==
    /\ initResult = "failed"
    /\ initFetches = 1
    /\ authPc = "idle"
    /\ logins = 0
    /\ storedToken = ""
    /\ apiToken = ""
    /\ ~isAuthenticated
    /\ ~initializing

\* ---------------------------------------------------------------- claim C12
IsPrefix(p, q) == Len(p) <= Len(q) /\ SubSeq(q, 1, Len(p)) = p

\* C12: when the transport fails after part of a message has been streamed,
\* the message stays in the list with the content accumulated so far followed
\* by an error annotation, and the stream is not retried.
C12_PartialKeptOnError ==
    [][(StreamError /\ accumulatedContent # << >>) =>
        (/\ Len(messages') = Len(messages)
         /\ messages' # << >>
         /\ IsPrefix(accumulatedContent, messages'[Len(messages')].content)
         /\ Len(messages'[Len(messages')].content) > Len(accumulatedContent)
         /\ pc' = "idle"
         /\ sendNo' = sendNo)]_vars

\* ------------------------------------------------ chatStream: line framing
\* The response text is a sequence of characters; "\n" ends a line, " " is
\* blank, "{" payload "}" is an object, everything else is not JSON.
Payload == {"a", "b"}

\* String.prototype.split('\n'): the pieces between the newlines, one piece
\* at least.
RECURSIVE SplitLines(_)
SplitLines(s) ==
    IF \A i \in 1 .. Len(s) : s[i] # "\n" THEN <<s>>
    ELSE LET i == CHOOSE j \in 1 .. Len(s) :
                      s[j] = "\n" /\ \A k \in 1 .. (j - 1) : s[k] # "\n"
         IN <<SubSeq(s, 1, i - 1)>> \o SplitLines(SubSeq(s, i + 1, Len(s)))

\* The fragment after the last newline is dropped.
DroppedRemainder(ls) == << >>

\* `buffer = lines.pop() || ''`: the fragment after the last newline is kept.
Remainder(ls) == ls[Len(ls)]

\* The lines left after lines.pop().
Complete(ls) == SubSeq(ls, 1, Len(ls) - 1)

\* JSON.parse(line): blanks around and between the tokens are insignificant;
\* the object is identified by the payload between its braces; anything else
\* throws a SyntaxError.
Significant(line) == SelectSeq(line, LAMBDA ch : ch # " ")
JsonValid(line) ==
    LET t == Significant(line)
    IN /\ Len(t) >= 2
       /\ t[1] = "{"
       /\ t[Len(t)] = "}"
       /\ \A i \in 2 .. (Len(t) - 1) : t[i] \in Payload
JsonParse(line) == LET t == Significant(line) IN SubSeq(t, 2, Len(t) - 1)

\* A SyntaxError of JSON.parse leaves the generator.
ParseErrorEscapes == FALSE

\* `try { JSON.parse(line); yield } catch (e) { console.error(...) }`
ParseErrorCaught == TRUE

\* `if (line.trim())`
NonBlank(line) == Trim(line) # << >>

\* The for loop over the lines up to its next suspension: the lines that are
\* blank, or whose SyntaxError is caught, are passed over.
RECURSIVE SkipLines(_)
SkipLines(ls) ==
    IF ls = << >> THEN << >>
    ELSE IF NonBlank(Head(ls)) /\ (JsonValid(Head(ls)) \/ ~ParseErrorCaught)
         THEN ls
         ELSE SkipLines(Tail(ls))

\* The generator runs the for loop over the lines ls until `yield chunk`
\* suspends it, an exception leaves it, or the lines are used up and it
\* awaits the next reader.read().
RunLines(ls) ==
    LET rest == SkipLines(ls)
    IN  IF rest = << >>
        THEN /\ lines' = << >>
             /\ parsePc' = "reading"
             /\ UNCHANGED yielded
        ELSE IF JsonValid(Head(rest))
        THEN /\ yielded' = Append(yielded, JsonParse(Head(rest)))
             /\ lines' = Tail(rest)
             /\ parsePc' = "yielded"
        ELSE /\ lines' = << >>
             /\ parsePc' = "threw"
             /\ UNCHANGED yielded

\* reader.read() resolves with data: the text is appended to the buffer,
\* the buffer is split, and the loop over the complete lines starts.
ReadChunk ==
    /\ parsePc = "reading"
    /\ reads # << >>
    /\ LET all == SplitLines(buffer \o Head(reads))
       IN /\ buffer' = Remainder(all)
          /\ RunLines(Complete(all))
    /\ reads' = Tail(reads)
    /\ UNCHANGED <<clientVars, authVars, responseText>>

\* The consumer asks for the next object: the generator resumes after
\* `yield chunk` with the lines of the read that are left.
ResumeLines ==
    /\ parsePc = "yielded"
    /\ RunLines(lines)
    /\ UNCHANGED <<clientVars, authVars, reads, buffer, responseText>>

\* reader.read() reports the end of the stream: the loop is left and the
\* remainder, if it is not blank, is parsed and yielded.
ReadDone ==
    /\ parsePc = "reading"
    /\ reads = << >>
    /\ IF NonBlank(buffer) /\ JsonValid(buffer)
       THEN /\ yielded' = Append(yielded, JsonParse(buffer))
            /\ parsePc' = "last"
       ELSE /\ parsePc' = IF NonBlank(buffer) /\ ~ParseErrorCaught
                          THEN "threw" ELSE "done"
            /\ UNCHANGED yielded
    /\ UNCHANGED <<clientVars, authVars, reads, buffer, lines, responseText>>

\* The consumer asks for the next object after the one of the remainder: the
\* generator runs through its finally block and is done.
ResumeLast ==
    /\ parsePc = "last"
    /\ parsePc' = "done"
    /\ UNCHANGED <<clientVars, authVars, reads, buffer, lines, yielded,
                   responseText>>

\* The consumer leaves its for-await loop at an object (handleSend: `break`
\* at a done marker, or an exception of the loop body): the generator's
\* return() runs the finally block at the yield; the lines left of the read
\* are never parsed and nothing more is read.
ReturnAtYield ==
    /\ parsePc \in {"yielded", "last"}
    /\ parsePc' = "returned"
    /\ lines' = << >>
    /\ UNCHANGED <<clientVars, authVars, reads, buffer, yielded, responseText>>

\* reader.read() rejects (the connection breaks): the exception leaves the
\* generator through its finally block.
ReadError ==
    /\ parsePc = "reading"
    /\ parsePc' = "failed"
    /\ UNCHANGED <<clientVars, authVars, reads, buffer, lines, yielded,
                   responseText>>

\* --------------------------------------- specification: reading a response
\* The lines a backend (or a proxy in front of it) may send.
LineSet == { << >>, <<" ">>, <<"{", "a", "}">>, <<" ", "{", "b", "}">>,
             <<"x">> }

\* Array.prototype.join('\n')
RECURSIVE Join(_)
Join(ls) ==
    IF Len(ls) = 1 THEN ls[1]
    ELSE ls[1] \o <<"\n">> \o Join(Tail(ls))

Texts == {Join(ls) : ls \in UNION {[1 .. n -> LineSet] : n \in 1 .. MaxLines}}

\* The text cut at the given positions, in order.
RECURSIVE Cut(_, _, _)
Cut(text, from, cuts) ==
    IF cuts = {} THEN <<SubSeq(text, from + 1, Len(text))>>
    ELSE LET c == CHOOSE x \in cuts : \A y \in cuts : x <= y
         IN <<SubSeq(text, from + 1, c)>> \o Cut(text, c, cuts \ {c})

\* Every way of delivering the text in MaxReads non-empty reads at most.
Splits(text) ==
    IF text = << >> THEN {<< >>}
    ELSE {Cut(text, 0, cuts) :
            cuts \in {c \in SUBSET (1 .. (Len(text) - 1)) :
                        Cardinality(c) < MaxReads}}

InitParse ==
    /\ ClientInit({1}, SmallTotals, TRUE)
    /\ SignedIn
    /\ responseText \in Texts
    /\ reads \in Splits(responseText)
    /\ buffer = << >>
    /\ lines = << >>
    /\ yielded = << >>
    /\ parsePc = "reading"

NextParse ==
    \/ ReadChunk
    \/ ResumeLines
    \/ ReadDone
    \/ ResumeLast
    \/ ReturnAtYield
    \/ ReadError

SpecParse == InitParse /\ [][NextParse]_vars

\* The whole text parsed line by line: each non-blank line that is JSON gives
\* its object, in line order.
RECURSIVE ParseLines(_)
ParseLines(ls) ==
    IF ls = << >> THEN << >>
    ELSE (IF NonBlank(Head(ls)) /\ JsonValid(Head(ls))
          THEN <<JsonParse(Head(ls))>> ELSE << >>)
         \o ParseLines(Tail(ls))

\* C13: however the response text is split into network reads, chatStream
\* has yielded, when it has run to its end, exactly the objects of the whole
\* text parsed line by line, in line order, the unterminated last line
\* included once; while it awaits a read, what it has yielded is what the
\* text received so far gives up to its last newline; while it is suspended
\* at an object, the lines of the read still to be parsed give the rest of
\* that; and a generator that its consumer has stopped, or whose read has
\* failed, has yielded a prefix of the objects of the whole text.
RECURSIVE Concat(_)
Concat(ss) == IF ss = << >> THEN << >> ELSE Head(ss) \o Concat(Tail(ss))
Received == SubSeq(responseText, 1, Len(responseText) - Len(Concat(reads)))
C13_SplitInvariant ==
    /\ parsePc = "done" => yielded = ParseLines(SplitLines(responseText))
    /\ parsePc = "last" => yielded = ParseLines(SplitLines(responseText))
    /\ parsePc = "reading" =>
          /\ yielded = ParseLines(Complete(SplitLines(Received)))
          /\ buffer = Remainder(SplitLines(Received))
    /\ parsePc = "yielded" =>
          /\ yielded \o ParseLines(lines) =
                 ParseLines(Complete(SplitLines(Received)))
          /\ buffer = Remainder(SplitLines(Received))
    /\ parsePc \in {"returned", "failed"} =>
          IsPrefix(yielded, ParseLines(SplitLines(responseText)))

\* The first object has been yielded and the second line, cut across two
\* reads and ending the text without a newline, is half in the buffer.
C13_Witness ==
    /\ parsePc = "reading"
    /\ responseText = <<"{", "a", "}", "\n", " ", "{", "b", "}">>
    /\ yielded = << <<"a">> >>
    /\ buffer = <<" ", "{">>
    /\ reads = << <<"b", "}">> >>

\* C14: a line that is not JSON, or a blank line, yields nothing and raises
\* no error: no line makes the generator throw, what it has yielded is at
\* any time a prefix of the objects of the well-formed lines, in order, and
\* once it has run to its end it has yielded all of them.
WellFormed(line) == NonBlank(line) /\ JsonValid(line)
ObjectsOf(ls) == [i \in 1 .. Len(ls) |-> JsonParse(ls[i])]
C14_MalformedSkipped ==
    /\ parsePc # "threw"
    /\ IsPrefix(yielded, ObjectsOf(SelectSeq(SplitLines(responseText), WellFormed)))
    /\ parsePc = "done" =>
          yielded = ObjectsOf(SelectSeq(SplitLines(responseText), WellFormed))

\* An object, a line that is not JSON, a blank line and an object again.
C14_Witness ==
    /\ parsePc = "done"
    /\ responseText = <<"{", "a", "}", "\n", "x", "\n", " ", "\n",
                        " ", "{", "b", "}">>
    /\ yielded = << <<"a">>, <<"b">> >>
    /\ Len(reads) = 0

\* ---------------------------------------------------------------- claim C15
\* The messages the latest send has put into the list.
OfLatestSend == {i \in DOMAIN messages : messages[i].snd = sendNo}

\* C15 (as claimed): after a stream of k >= 1 role runs ended by done, and
\* without the user leaving the conversation meanwhile, the send has added exactly 1 + k messages (the user's and one per run), and no
\* message of a run that carried content is left empty.
C15_PlaceholderFilled ==
    (pc = "idle" /\ srvStream \in {"done", "unread"} /\ Len(sentRuns) >= 1
     /\ navs = 0)
        => /\ Cardinality(OfLatestSend) = 1 + Len(sentRuns)
           /\ \A k \in DOMAIN Replies :
                  Replies[k].content = << >> => sentRuns[k].content = << >>

\* ---------------------------------------------------------------- claim C16
\* A step of the running handleSend while it reads the stream.
ReconcilerStep ==
    /\ pc = "stream"
    /\ \/ \E ch \in Chunks(streamConv, MaxChunks - chunksLeft + 1) : StreamChunk(ch)
       \/ StreamEnd
       \/ StreamError

\* C16: while a stream is read, the reconciler writes the trailing element of
\* the message list only: each of its steps keeps every message at an earlier
\* position, and the list does not shrink.
C16_OnlyTrailingWritten ==
    [][(/\ Len(messages') >= Len(messages)
        /\ \A i \in 1 .. (Len(messages) - 1) : messages'[i] = messages[i])
       \/ ~ReconcilerStep]_vars

\* A stream into a conversation loaded from the backend has changed role
\* once: the loaded messages, the user's message and the sealed message stand
\* before the open one.
C16_Witness ==
    /\ pc = "stream"
    /\ Len(messages) >= 5
    /\ messages[1].idx >= 1
    /\ sealed # {}
    /\ messages[Len(messages)].run = 2
    /\ accumulatedContent # << >>

\* ---------------------------------------------------------------- claim C17
\* The stream objects of every position.
AnyChunk == UNION {Chunks(streamConv, k) : k \in 1 .. MaxChunks}

\* C17: a fragment changes the widget's active conversation identifier only
\* when the widget has none and the fragment carries one, and then to the
\* identifier carried; an identifier the widget has, from an earlier fragment
\* or from before the send, is kept by every fragment.
C17_IdentifierSetOnce ==
    [][\A ch \in AnyChunk : StreamChunk(ch) =>
        (/\ activeConversationId # NoConv =>
                activeConversationId' = activeConversationId
         /\ (activeConversationId = NoConv /\ ch.cid = NoConv) =>
                activeConversationId' = NoConv
         /\ (activeConversationId = NoConv /\ ch.cid # NoConv) =>
                activeConversationId' = ch.cid)]_vars

\* ---------------------------------------------------------------- claim C18
\* C18 (as claimed): the fragment by which a stream assigns an identifier the
\* conversation list does not hold triggers a refresh of the list: a
\* loadConversations request is in flight after it.
C18_RefreshOnNewConversation ==
    [][\A ch \in AnyChunk :
        (/\ StreamChunk(ch)
         /\ ch.cid # NoConv
         /\ streamConversationId = NoConv
         /\ ch.cid \notin conversations) => convsReq' > 0]_vars

\* ---------------------------------------------------------------- claim C19
\* C19 (as claimed): an object with the done marker (one that assigns no new
\* identifier) ends the loop and finalizes the open message with the content
\* and the thinking accumulated before it, a message carried in that object
\* changing nothing; all other messages stay as they are, and no step of the
\* reconciler follows.
C19_DoneFinalizes ==
    /\ [][\A ch \in AnyChunk :
            (/\ StreamChunk(ch)
             /\ ch.done
             /\ ~(ch.cid # NoConv /\ streamConversationId = NoConv)
             /\ messages # << >>) =>
                (/\ pc' = "idle"
                 /\ Len(messages') = Len(messages)
                 /\ \A i \in 1 .. (Len(messages) - 1) : messages'[i] = messages[i]
                 /\ (accumulatedContent # << >> \/ accumulatedThinking # << >>) =>
                        /\ messages'[Len(messages)].content = accumulatedContent
                        /\ messages'[Len(messages)].thinking = accumulatedThinking)]_vars
    /\ [][pc = "idle" => ~ReconcilerStep]_vars

\* ------------------------------------- specification: the finished indicator
\* MessageBubble: showFinishedIndicator.
ShowFinishedIndicator(m, isLast) ==
    isLast /\ m.role # "user" /\ justFinishedStreaming /\ ~isStreaming

\* MaxSends sends of one widget into one conversation, each answered by
\* ShortStream assistant fragments, with the animation frame, the typing
\* interval and the two timeouts; a timeout that is set fires in the end, and
\* a render that is due takes place and runs the effect of the flag.
IndicatorChunkSet(c, k) ==
    {ch \in Chunks(c, k) :
        ch.cid = NoConv /\ (ch.msg => ch.role \in {"assistant", "user"})}

NextIndicator ==
    \/ LoadModelsDone(<<"m">>)
    \/ SetInput(<<"h">>, MaxSends)
    \/ HandleSend(MaxSends)
    \/ FetchOk(ShortStream)
    \/ \E ch \in IndicatorChunkSet(streamConv, ShortStream - chunksLeft + 1) :
           StreamChunk(ch)
    \/ StreamEnd
    \/ StreamError
    \/ FrameFire
    \/ TypingEffect
    \/ Tick
    \/ DoneTimerFire
    \/ FinishedEffect
    \/ FinishedTimerFire

SpecIndicator ==
    /\ Init
    /\ [][NextIndicator]_vars
    /\ WF_vars(DoneTimerFire)
    /\ WF_vars(FinishedEffect)
    /\ WF_vars(FinishedTimerFire)

\* C20 (as claimed): the timeout set by a done marker fires; when it fires the
\* streaming targets are cleared and the finished flag is set; the flag is
\* then cleared again without any user action; and no bubble shows the
\* indicator while isStreaming.
C20_FinishedIndicator ==
    /\ [][DoneTimerFire =>
            (/\ streamingContent' = << >>
             /\ streamingThinking' = << >>
             /\ justFinishedStreaming')]_vars
    /\ (doneTimers > 0) ~> (doneTimers = 0)
    /\ justFinishedStreaming ~> ~justFinishedStreaming
    /\ [](\A i \in DOMAIN messages :
            ShowFinishedIndicator(messages[i], i = Len(messages)) => ~isStreaming)

\* ---------------------------------------------------------------- claim C21
\* C21: a successful loadMoreMessages puts the fetched page in front of the
\* window, the messages it held following unchanged and in their order; the
\* cursor grows by the length of the page; totalMessages and
\* currentConversation stay as they are.
C21_PagePrepended ==
    [][\A i \in 1 .. MaxLoadMore : LoadMoreDone(i) =>
        LET page == ServerPage(lmReqs[i].conv, PageSize, lmReqs[i].offset).messages
            n == Len(page)
        IN  /\ Len(messages') = n + Len(messages)
            /\ SubSeq(messages', 1, n) = page
            /\ SubSeq(messages', n + 1, Len(messages')) = messages
            /\ messagesOffset' = messagesOffset + n
            /\ totalMessages' = totalMessages
            /\ currentConversation' = currentConversation]_vars

\* A full second page stands in front of the first one.
C21_Witness ==
    /\ currentConversation # NoConv
    /\ lmReqs = << >>
    /\ lastFetch.len = PageSize
    /\ messagesOffset = PageSize + PageSize
    /\ Len(messages) = PageSize + PageSize
    /\ messages[1] = ServerMsg(currentConversation, srvTotal[currentConversation] - Len(messages) + 1)
    /\ messages[PageSize + 1].idx = messages[PageSize].idx + 1

\* ---------------------------------------------------------------- claim C22
\* C22: a tick of the typing interval advances one cursor only.  The targets
\* of a tick are the streamingThinking and streamingContent its callback
\* reads: those of the render that started its interval.  While
\* displayedThinking is shorter than the thinking target it grows by
\* min(TypingStep, remaining) characters of the target and displayedContent
\* stays; otherwise displayedThinking stays and displayedContent grows by
\* min(TypingStep, remaining) characters of its target (by none when nothing
\* remains).  No tick shortens a cursor or takes it beyond its target.
C22_OneCursorPerTick ==
    [][Tick =>
        LET targetT == intervalTargets.thinking
            targetC == intervalTargets.content
            remT == Len(targetT) - Len(displayedThinking)
            remC == Max(Len(targetC) - Len(displayedContent), 0)
        IN  /\ IF remT > 0
               THEN /\ displayedThinking' =
                          SubSeq(targetT, 1,
                                 Len(displayedThinking) + Min(TypingStep, remT))
                    /\ displayedContent' = displayedContent
               ELSE /\ displayedThinking' = displayedThinking
                    /\ Len(displayedContent') =
                          Len(displayedContent) + Min(TypingStep, remC)
                    /\ remC > 0 =>
                          displayedContent' =
                              SubSeq(targetC, 1, Len(displayedContent'))
            /\ Len(displayedThinking') >= Len(displayedThinking)
            /\ Len(displayedContent') >= Len(displayedContent)
            /\ Len(displayedThinking') > Len(displayedThinking) =>
                   Len(displayedThinking') <= Len(targetT)
            /\ Len(displayedContent') > Len(displayedContent) =>
                   Len(displayedContent') <= Len(targetC)]_vars

\* The thinking has been typed out in a full and a clamped step, and the
\* first step of the content has been typed.
C22_Witness ==
    /\ isStreaming
    /\ typingInterval
    /\ intervalTargets = [content |-> streamingContent, thinking |-> streamingThinking]
    /\ Len(streamingThinking) = TypingStep + 1
    /\ displayedThinking = streamingThinking
    /\ Len(streamingContent) > TypingStep
    /\ displayedContent = SubSeq(streamingContent, 1, TypingStep)

\* ---------------------------------------------------------------- claim C23
\* The typing effect has run for the targets and the flag the state holds.
EffectRun == typingDeps = <<streamingThinking, streamingContent, isStreaming>>

\* C23 (as claimed): while a stream is active and no update of the targets
\* is pending, the typing interval is cleared only with both cursors equal
\* to their targets; the effect that follows a growth of a target leaves an
\* interval running; and the effect that follows the clearing of both
\* targets leaves both cursors empty.
C23_TimerFollowsTargets ==
    /\ [](isStreaming /\ EffectRun /\ ~typingInterval /\ ~streamFrame =>
            /\ displayedThinking = streamingThinking
            /\ displayedContent = streamingContent)
    /\ [][(TypingEffect /\ isStreaming /\ typingDeps[3]
           /\ (Len(streamingContent) > Len(typingDeps[2])
               \/ Len(streamingThinking) > Len(typingDeps[1])))
            => typingInterval']_vars
    /\ [][(TypingEffect /\ isStreaming /\ typingDeps[3]
           /\ streamingContent = << >> /\ streamingThinking = << >>)
            => (displayedContent' = << >> /\ displayedThinking' = << >>)]_vars

\* ---------------------------------------------------------------- claim C24
\* The pair the reconciler has accumulated.
Accumulated == [content |-> accumulatedContent, thinking |-> accumulatedThinking]

\* C24: at most one animation-frame callback is pending, and one is pending
\* exactly when streamFrameRef holds a frame; a fragment that changes the
\* accumulated pair leaves that pair in the mailbox with a frame pending;
\* while the stream is read and a frame is pending the mailbox holds the pair
\* accumulated last; and the callback makes the mailbox's pair the targets.
C24_SingleSlotMailbox ==
    /\ [](frames <= 1 /\ (streamFrame <=> frames = 1))
    /\ []((pc = "stream" /\ streamFrame) => pendingStream = Accumulated)
    /\ [][(pc = "stream" /\ pc' = "stream" /\ Accumulated' # Accumulated) =>
            (pendingStream' = Accumulated' /\ streamFrame')]_vars
    /\ [][FrameFire =>
            (/\ streamingContent' = pendingStream.content
             /\ streamingThinking' = pendingStream.thinking
             /\ frames' = 0)]_vars

\* Two fragments were scheduled before the frame fired: the targets hold
\* both deltas and nothing of the first pair alone was ever typed.
C24_Witness ==
    /\ pc = "stream"
    /\ ~streamFrame
    /\ frames = 0
    /\ Len(sentRuns) = 1
    /\ Len(accumulatedContent) = 6
    /\ streamingContent = accumulatedContent
    /\ streamingThinking = accumulatedThinking
    /\ displayedContent = << >>
    /\ displayedThinking = << >>
    /\ typingInterval

\* ------------------------------------------------- specification: teardown
\* One send as in SpecTyping, the widget being torn down at any moment.
NextTeardown ==
    \/ LoadModelsDone(<<"m">>)
    \/ SetInput(<<"h">>, 1)
    \/ HandleSend(1)
    \/ FetchOk(TypingChunks)
    \/ \E ch \in TypingChunkSet(streamConv, TypingChunks - chunksLeft + 1) : StreamChunk(ch)
    \/ StreamEnd
    \/ StreamError
    \/ FrameFire
    \/ TypingEffect
    \/ Tick
    \/ DoneTimerFire
    \/ FinishedEffect
    \/ FinishedTimerFire
    \/ Unmount

SpecTeardown == Init /\ [][NextTeardown]_vars

\* The state of the widget: its React state and its refs.
WidgetState ==
    <<input, images, isStreaming, activeConversationId, streamingContent,
      streamingThinking, displayedContent, displayedThinking,
      justFinishedStreaming, typingInterval, streamFrame, pendingStream>>

\* C25 (as claimed): once the widget is torn down, no step (timer, animation
\* frame, delayed clear, stream fragment) changes the widget's state or refs.
C25_QuietAfterTeardown ==
    [][~mounted => WidgetState' = WidgetState]_vars

\* -------------------------------------------------- specification: uploads
\* One send with up to UploadImages attached images.
NextUpload ==
    \/ LoadModelsDone(<<"m">>)
    \/ SetInput(<<"h">>, 1)
    \/ AttachImages(1, UploadImages)
    \/ RemoveImage
    \/ HandleSend(1)
    \/ UploadDone
    \/ UploadFail
    \/ FetchOk(ShortStream)
    \/ FetchFail("http")
    \/ \E ch \in Chunks(streamConv, ShortStream - chunksLeft + 1) : StreamChunk(ch)
    \/ StreamEnd
    \/ StreamError
    \/ FrameFire
    \/ DoneTimerFire
    \/ FinishedEffect
    \/ FinishedTimerFire

SpecUpload == Init /\ [][NextUpload]_vars

\* C26: the images are uploaded one at a time in the order they were attached
\* (the upload in flight is always the one after the last completed), the chat
\* request is issued only when every captured image has been uploaded, and a
\* failed upload ends the send without a chat request.
C26_UploadsThenChat ==
    /\ [](pc = "upload" => uploaded < sendImages /\ srvStream = "none")
    /\ [][pc = "upload" /\ uploaded' # uploaded =>
            uploaded' = uploaded + 1 \/ (pc' = "idle" /\ uploaded' = 0)]_vars
    /\ [][pc # "fetch" /\ pc' = "fetch" =>
            /\ IF sendImages' = 0 THEN pc = "idle" ELSE pc = "upload"
            /\ uploaded' = sendImages']_vars
    /\ [][UploadFail => pc' = "idle" /\ srvStream' = "none" /\ srvTotal' = srvTotal]_vars

\* The second of two images has been uploaded and the chat request is out.
C26_Witness ==
    /\ pc = "fetch"
    /\ sendImages = UploadImages
    /\ uploaded = UploadImages

\* C27 (as claimed): when the response stream ends without a done marker while
\* a message is in progress, that message's stored content becomes the
\* concatenation of the content deltas received for it, and the streaming
\* display state is cleared.
C27_FinalizedWithoutDone ==
    [][StreamEnd /\ currentRole # "" =>
        /\ messages'[Len(messages')].content = accumulatedContent
        /\ streamingContent' = << >>
        /\ streamingThinking' = << >>
        /\ ~isStreaming']_vars

\* ---------------------------------------------------------------- claim C28
\* The positions of the list a step has written: changed or appended.
Written == {i \in DOMAIN messages' : i \notin DOMAIN messages \/ messages'[i] # messages[i]}

\* C28 (as claimed): a fragment, a done marker or an error of a stream writes
\* only messages its own send created: a message it changes is one of the
\* send, and a message it appends follows a message of the send; the list is
\* never shortened by it.
C28_StreamWritesOwnMessages ==
    [][ReconcilerStep =>
        /\ Len(messages') >= Len(messages)
        /\ \A i \in Written :
              IF i \in DOMAIN messages
              THEN messages[i].snd = sendNo
              ELSE i > 1 /\ messages'[i - 1].snd = sendNo]_vars

\* ---------------------------------------------------------------- claim C29
\* Every message of the window that came from the backend belongs to the
\* current conversation.
WindowOfCurrent ==
    \A i \in DOMAIN messages :
        messages[i].conv # NoConv => messages[i].conv = currentConversation

\* C29 (as claimed): the response of a loadMoreMessages issued for a
\* conversation that is no longer the current one is not merged: it changes
\* neither the window nor its cursor nor hasMoreMessages, and the window holds
\* messages of the current conversation only.
C29_LateLoadMoreDropped ==
    /\ [][\A i \in 1 .. MaxLoadMore :
            (LoadMoreDone(i) /\ lmReqs[i].conv # currentConversation) =>
                UNCHANGED <<messages, messagesOffset, hasMoreMessages>>]_vars
    /\ [][WindowOfCurrent /\ (\E i \in 1 .. MaxLoadMore : LoadMoreDone(i))
            => WindowOfCurrent']_vars

\* ---------------------------------------------------------------- claim C30
\* A send is running: it has not read a done marker, so a timeout of a done
\* marker that is still set was set by an earlier send.
SendRunning == pc # "idle"

\* C30 (as claimed): the timeout set by the done marker of an earlier send,
\* firing while a later send is running, neither cancels that send's pending
\* update nor clears its streaming targets nor sets the finished flag.
C30_DoneTimerOfEarlierSend ==
    [][DoneTimerFire /\ SendRunning =>
        UNCHANGED <<streamFrame, frames, streamingContent, streamingThinking,
                    justFinishedStreaming>>]_vars

\* ---------------------------------------------------------------- claim C31
\* C31 (as claimed): while a stream is active the text displayed is a prefix
\* of the text streamed, for the content and for the thinking.
C31_DisplayedIsPrefix ==
    isStreaming =>
        /\ IsPrefix(displayedContent, streamingContent)
        /\ IsPrefix(displayedThinking, streamingThinking)

\* ---------------------------------------------------------------- claim C32
\* C32 (as claimed): a send that fails in an image upload, before its user
\* message has been appended, leaves the message list as it is.
C32_UploadFailureKeepsList ==
    [][UploadFail => messages' = messages]_vars

\* ---------------------------------------------------------------- claim C33
\* A fragment of the short streams of SpecSends.
ShortChunk == UNION {Chunks(streamConv, k) : k \in 1 .. ShortStream}

\* C33: with no conversation switch, the identifier the first round-trip
\* returns becomes the widget's identifier (the identifier an object of the
\* stream carries is that of the conversation served, so a step from no
\* identifier to anything else is not the reading of such an object), no later step changes an
\* identifier the widget holds, every send captures the widget's identifier
\* for its chat request, and a request that carries an identifier is served
\* in that conversation without a new one being created.
C33_LaterSendsCarryIdentifier ==
    /\ [][(pc = "stream" /\ activeConversationId = NoConv
              /\ activeConversationId' # streamConv) =>
            \A ch \in {c \in Chunks(streamConv, ShortStream - chunksLeft + 1) :
                                                            c.cid # NoConv} :
                ~StreamChunk(ch)]_vars
    /\ [][activeConversationId # NoConv =>
            activeConversationId' = activeConversationId]_vars
    /\ [][sendNo' = sendNo + 1 => sendActiveId' = activeConversationId]_vars
    /\ [][(pc = "fetch" /\ sendActiveId # NoConv /\ FetchOk(ShortStream)) =>
            (streamConv' = sendActiveId /\ srvConvs' = srvConvs)]_vars

\* The second send is served in the conversation the first one created.
C33_Witness ==
    /\ sendNo = 2
    /\ pc = "stream"
    /\ sendActiveId = ChatConv(NoConv, 1)
    /\ streamConv = sendActiveId
    /\ Cardinality(srvConvs \ {1}) = 1

\* ------------------------------------------- specification: a send completes
\* A step of the running handleSend: the continuation after one of its awaits.
SendStep ==
    \/ UploadDone
    \/ UploadFail
    \/ FetchOk(ShortStream)
    \/ FetchFail("http")
    \/ \E ch \in ShortChunk : StreamChunk(ch)
    \/ StreamEnd
    \/ StreamError

\* The sends of SpecUpload when every request is answered: an upload resolves
\* or rejects, the chat request is answered or fails, and the response body
\* delivers its next line, ends or fails.
SpecAnswered ==
    /\ Init
    /\ [][NextUpload]_vars
    /\ WF_vars(SendStep)

\* C34: every send that passes the guard leaves the streaming state again,
\* however its uploads, its request and its stream end; once handleSend has
\* returned isStreaming is false, so the guard lets the next send pass.
C34_SendLeavesStreaming ==
    /\ isStreaming ~> ~isStreaming
    /\ (pc # "idle") ~> (pc = "idle")
    /\ [](pc = "idle" => ~isStreaming)
    /\ [][SendStep /\ pc' = "idle" => ~isStreaming']_vars

\* A send with UploadImages images that failed in an upload has left the
\* streaming state without a chat request.
C34_Witness ==
    /\ sendNo = 1
    /\ pc = "idle"
    /\ ~isStreaming
    /\ srvStream = "none"
    /\ images = UploadImages

\* ------------------------------------------------ specification: deleting
\* Two conversations, selected, left and deleted, the delete button being
\* clicked again before the first request is answered.
NextDelete ==
    \/ LoadConversationsDone
    \/ navs < DeleteNavs /\ \E id \in AllConvs : LoadConversationCall(id)
    \/ \E id \in AllConvs : LoadConversationDone(id)
    \/ \E id \in AllConvs : LoadConversationFail(id)
    \/ navs < DeleteNavs /\ CreateNewConversation
    \/ navs < DeleteNavs /\ DeleteCall
    \/ \E i \in 1 .. DeleteNavs : DeleteDone(i)
    \/ \E i \in 1 .. DeleteNavs : DeleteFail(i)
    \/ SyncActiveId

SpecDelete == InitStore /\ [][NextDelete]_vars

\* ---------------------------------------------------------------- claim C35
\* C35 (as claimed): while the store has no current conversation its
\* pagination state is the empty one.
C35_NoConversationNoCursor ==
    currentConversation = NoConv =>
        /\ ~hasMoreMessages
        /\ messagesOffset = 0
        /\ totalMessages = 0

\* ---------------------------------------------------------------- claim C36
\* C36 (as claimed): a failed loadMoreMessages leaves messages, messagesOffset
\* and hasMoreMessages as they are and resets isLoadingMessages; and
\* isLoadingMessages is true only while a load-more request is in flight.
C36_LoadMoreFailure ==
    /\ [][\A i \in 1 .. MaxLoadMore : LoadMoreFail(i) =>
            /\ UNCHANGED <<messages, messagesOffset, hasMoreMessages>>
            /\ ~isLoadingMessages']_vars
    /\ [](isLoadingMessages => lmReqs # << >>)

\* A load-more of an opened conversation has failed: the window is the page
\* loadConversation brought, the cursor behind it, and the guard of
\* loadMoreMessages is open again.
C36_Witness ==
    /\ lastFetch = NothingFetched
    /\ currentConversation # NoConv
    /\ lmReqs = << >>
    /\ Len(messages) = PageSize
    /\ messagesOffset = PageSize
    /\ LoadMoreGuard

\* ---------------------------------------------------------------- claim C37
\* C37 (as claimed): a login or register that fails, in the credential
\* request or in the profile fetch that follows, leaves the state anonymous
\* and leaves no token of the attempt in the API client or in the persistent
\* storage.
C37_FailedLoginLeavesNoToken ==
    /\ [][LoginFail =>
            (~isAuthenticated' /\ UNCHANGED <<apiToken, storedToken, storedRemember>>)]_vars
    /\ [][ProfileFail =>
            (/\ ~isAuthenticated'
             /\ apiToken' # apiToken
             /\ storedToken' # apiToken)]_vars

\* ---------------------------------------------------------------- claim C38
\* C38 (as claimed): logout removes the persisted token and the remember-me
\* flag, clears the API client's token and makes the state anonymous with no
\* user; an initializeAuth over a storage without token issues no request;
\* and an anonymous state has no user, whatever request completes later.
C38_AnonymousAfterLogout ==
    /\ [][Logout =>
            (/\ storedToken' = ""
             /\ ~storedRemember'
             /\ apiToken' = ""
             /\ ~isAuthenticated'
             /\ user' = ""
             /\ ~rememberMe')]_vars
    /\ [][(InitializeAuth /\ storedToken = "") =>
            (initFetches' = initFetches /\ ~isAuthenticated' /\ user' = "")]_vars
    /\ [](~isAuthenticated => user = "")

====
